---- MODULE Spec2Model ----
(***************************************************************************)
(* A model of oslo_log/log.py: the process-wide adapter cache behind       *)
(* getLogger, KeywordArgumentAdapter.process, _ensure_unicode, setup with *)
(* the functions it calls, and a log call from the adapter to the line the *)
(* handler writes.                                                         *)
(*                                                                         *)
(* Python values are records [kind, s, m, l]: kind is the Python type,     *)
(* s the text of a str (or the decimal text of an int), m the content of a *)
(* dict (a function from keys to values) and l the content of a list.      *)
(* Adapter objects live in the heap `adapters`; an adapter's identity is   *)
(* its index in that heap.                                                 *)
(***************************************************************************)
EXTENDS Naturals, Sequences, FiniteSets, TLC

VARIABLES
    _loggers,       \* log.py:357 the name -> adapter cache (adapter = heap index)
    adapters,       \* heap of KeywordArgumentAdapter objects, in creation order
    pc,             \* per thread: where it stands inside getLogger
    frame,          \* per thread: the locals of its getLogger call
    returned,       \* history: what every finished getLogger call returned
    calls,          \* number of getLogger calls started so far
    self_extra,     \* process: the adapter's bound defaults (self.extra)
    msg,            \* process / _ensure_unicode: the msg argument
    kwargs,         \* process: the kwargs argument
    outcome,        \* what the call under study produced
    conf,           \* the oslo.config options read by setup
    env,            \* what surrounds the process: interpreter, files, syslog
    binary,         \* _get_log_file_path: the binary argument
    log_root,       \* the root logger: its handler list and its level
    levels,         \* the level of every other logger made by logging.getLogger
    created,        \* number of handler objects created so far (identities)
    excepthook,     \* sys.excepthook
    emitted,        \* the records handed to the underlying loggers, in order
    before,         \* history: log_root and sys.excepthook when the last call began
    record,         \* the log record given to the formatter
    store,          \* per thread: the request context of the thread, if any
    inflight,       \* per thread: the record of the log call it is inside
    stream,         \* the lines the handler wrote to its stream, in order
    stderr          \* the diagnostics written to sys.stderr, in order

vars == <<_loggers, adapters, pc, frame, returned, calls,
          self_extra, msg, kwargs, outcome,
          conf, env, binary, log_root, levels, created, excepthook, emitted,
          before, record, store, inflight, stream, stderr>>

getLoggerVars == <<_loggers, adapters, pc, frame, returned, calls>>
processVars == <<self_extra, msg, kwargs, outcome>>
setupVars == <<conf, env, binary, log_root, levels, created, excepthook,
               emitted, before, record, store, inflight, stream, stderr>>
emitVars == <<store, inflight, stream, stderr>>

(***************************************************************************)
(* Bounds.                                                                 *)
(***************************************************************************)
NumThreads == 2
MaxCalls == 3
MaxLen == 3

Threads == 1 .. NumThreads

(***************************************************************************)
(* Python values.                                                          *)
(***************************************************************************)
EmptyDict == [k \in {} |-> 0]

None == [kind |-> "None", s |-> "", m |-> EmptyDict, l |-> <<>>]
Str(s) == [kind |-> "str", s |-> s, m |-> EmptyDict, l |-> <<>>]
Int(s) == [kind |-> "int", s |-> s, m |-> EmptyDict, l |-> <<>>]
Dict(m) == [kind |-> "dict", s |-> "", m |-> m, l |-> <<>>]
List(l) == [kind |-> "list", s |-> "", m |-> EmptyDict, l |-> l]

\* bool(value), as `if resource:` and `if not resource.get('name', None):` take it
Truthy(v) ==
    CASE v.kind = "None" -> FALSE
      [] v.kind = "str" -> v.s # ""
      [] v.kind = "int" -> v.s # "0"
      [] v.kind = "dict" -> DOMAIN v.m # {}
      [] v.kind = "list" -> v.l # <<>>

\* dict.update(other) for a mapping `other`: other's entries win
Update(d, other) ==
    [k \in DOMAIN d \cup DOMAIN other |->
        IF k \in DOMAIN other THEN other[k] ELSE d[k]]

\* d[key] = value
SetItem(d, key, value) ==
    [k \in DOMAIN d \cup {key} |-> IF k = key THEN value ELSE d[k]]

\* the dict left after d.pop(key)
Pop(d, key) == [k \in DOMAIN d \ {key} |-> d[k]]

\* d.get(key, default)
Get(d, key, default) == IF key \in DOMAIN d THEN d[key] ELSE default

(***************************************************************************)
(* Text, options and the state setup works on.                             *)
(*                                                                         *)
(* Where the code looks inside a str (upper, startswith, partition,        *)
(* os.path.join) the str is a sequence of one-character strings.  None in  *)
(* the place of such a str is NoneText, which no str equals.               *)
(***************************************************************************)
NoneText == <<"<None>">>

\* the truth test of `if logfile`, `if conf.log_format`, ...
TextTruthy(t) == t # NoneText /\ t # <<>>

\* logging's level numbers
NOTSET == 0
DEBUG == 10
INFO == 20
WARNING == 30
ERROR == 40
CRITICAL == 50

\* the level attribute of a logger: an int, or (Python 2.6) whatever
\* object setLevel was given
IntLevel(n) == [kind |-> "int", n |-> n, s |-> <<>>]
StrLevel(s) == [kind |-> "str", n |-> 0, s |-> s]

\* _options.py: the options at their defaults.  A format string is the
\* sequence of its pieces, each a placeholder or the text between two.
DefaultConf ==
    [debug |-> FALSE,
     verbose |-> TRUE,
     log_config_append |-> NoneText,
     log_format |-> NoneText,
     log_file |-> NoneText,
     log_dir |-> NoneText,
     watch_log_file |-> FALSE,
     use_syslog |-> FALSE,
     use_syslog_rfc_format |-> TRUE,
     syslog_log_facility |-> <<"L", "O", "G", "_", "U", "S", "E", "R">>,
     use_stderr |-> TRUE,
     publish_errors |-> FALSE,
     default_log_levels |-> <<>>,
     logging_context_format_string |->
         <<"%(asctime)s", ".", "%(msecs)03d", " ", "%(process)d", " ",
           "%(levelname)s", " ", "%(name)s", " [", "%(request_id)s", " ",
           "%(user_identity)s", "] ", "%(instance)s", "%(message)s">>,
     logging_default_format_string |->
         <<"%(asctime)s", ".", "%(msecs)03d", " ", "%(process)d", " ",
           "%(levelname)s", " ", "%(name)s", " [-] ", "%(instance)s",
           "%(message)s">>,
     logging_debug_format_suffix |->
         <<"%(funcName)s", " ", "%(pathname)s", ":", "%(lineno)d">>]

LOG(name) == <<"L", "O", "G", "_">> \o name

\* the facility constants of the syslog module on Linux; LOG_FTP is one the
\* module does not define there
LinuxSyslog ==
    (LOG(<<"K", "E", "R", "N">>) :> 0)
    @@ (LOG(<<"U", "S", "E", "R">>) :> 8)
    @@ (LOG(<<"M", "A", "I", "L">>) :> 16)
    @@ (LOG(<<"D", "A", "E", "M", "O", "N">>) :> 24)
    @@ (LOG(<<"A", "U", "T", "H">>) :> 32)
    @@ (LOG(<<"S", "Y", "S", "L", "O", "G">>) :> 40)
    @@ (LOG(<<"L", "P", "R">>) :> 48)
    @@ (LOG(<<"N", "E", "W", "S">>) :> 56)
    @@ (LOG(<<"U", "U", "C", "P">>) :> 64)
    @@ (LOG(<<"C", "R", "O", "N">>) :> 72)
    @@ (LOG(<<"A", "U", "T", "H", "P", "R", "I", "V">>) :> 80)
    @@ (LOG(<<"L", "O", "C", "A", "L", "0">>) :> 128)
    @@ (LOG(<<"L", "O", "C", "A", "L", "1">>) :> 136)
    @@ (LOG(<<"L", "O", "C", "A", "L", "2">>) :> 144)
    @@ (LOG(<<"L", "O", "C", "A", "L", "3">>) :> 152)
    @@ (LOG(<<"L", "O", "C", "A", "L", "4">>) :> 160)
    @@ (LOG(<<"L", "O", "C", "A", "L", "5">>) :> 168)
    @@ (LOG(<<"L", "O", "C", "A", "L", "6">>) :> 176)
    @@ (LOG(<<"L", "O", "C", "A", "L", "7">>) :> 184)

DefaultEnv ==
    [py26 |-> FALSE,            \* sys.version_info < (2, 7)
     config_file |-> "ok",      \* the file log_config_append names
     syslog |-> LinuxSyslog,    \* the attributes of the syslog module
     binary_name |-> <<"b">>]   \* what handlers._get_binary_name() returns

\* the root logger as the logging module makes it
FreshRoot == [handlers |-> <<>>, level |-> IntLevel(WARNING)]

\* no call of setup made yet
NoCall == [call |-> "none", product |-> "", exc |-> "", level |-> NOTSET,
           log_root |-> FreshRoot, excepthook |-> "sys.__excepthook__"]

NoRecord == [levelno |-> NOTSET, has_context |-> FALSE, request_id |-> "",
             message |-> ""]

\* no request context anywhere, no log call under way, nothing written
InitNoEmit ==
    /\ store = [t \in Threads |-> ""]
    /\ inflight = [t \in Threads |-> NoRecord]
    /\ stream = <<>>
    /\ stderr = <<>>

InitNoSetup ==
    /\ conf = DefaultConf
    /\ env = DefaultEnv
    /\ binary = NoneText
    /\ log_root = FreshRoot
    /\ levels = [n \in {} |-> IntLevel(NOTSET)]
    /\ created = 0
    /\ excepthook = "sys.__excepthook__"
    /\ emitted = <<>>
    /\ before = NoCall
    /\ record = NoRecord
    /\ InitNoEmit

(***************************************************************************)
(* getLogger and the adapter cache.                                        *)
(***************************************************************************)
NoneName == "<None>"
Names == {NoneName, "oslo.subname", "oslo_subname"}
Projects == {"unknown", "nova"}
Versions == {"unknown"}

\* logging.getLogger(name): one Logger per name, the root logger for None.
\* A Logger is identified by its name.
logging_getLogger(name) == IF name = NoneName THEN "root" ELSE name

\* the adapter bound to the default project and version, whatever was passed
KeywordArgumentAdapter_unbound(logger, extra) ==
    [logger |-> logger,
     extra |-> [project |-> "unknown", version |-> "unknown"]]

\* KeywordArgumentAdapter(logger, extra): logging.LoggerAdapter.__init__
\* stores both.
KeywordArgumentAdapter(logger, extra) == [logger |-> logger, extra |-> extra]

\* the membership test left out: every call builds and stores an adapter
NotInLoggers_untested(name, cache) == TRUE

\* log.py:373 `name not in _loggers`
NotInLoggers(name, cache) == name \notin DOMAIN cache

IdleFrame == [name |-> NoneName, project |-> "unknown", version |-> "unknown",
              new |-> 0, miss |-> FALSE]

\* A thread enters getLogger(name, project, version).
Call(t, name, project, version) ==
    /\ pc[t] = "idle"
    /\ calls < MaxCalls
    /\ calls' = calls + 1
    /\ frame' = [frame EXCEPT ![t] = [name |-> name, project |-> project,
                                      version |-> version, new |-> 0,
                                      miss |-> FALSE]]
    /\ pc' = [pc EXCEPT ![t] = "test"]
    /\ UNCHANGED <<_loggers, adapters, returned>>
    /\ UNCHANGED processVars
    /\ UNCHANGED setupVars

\* log.py:373 the membership test
Test(t) ==
    /\ pc[t] = "test"
    /\ IF NotInLoggers(frame[t].name, _loggers)
       THEN /\ pc' = [pc EXCEPT ![t] = "construct"]
            /\ frame' = [frame EXCEPT ![t].miss = TRUE]
       ELSE /\ pc' = [pc EXCEPT ![t] = "return"]
            /\ UNCHANGED frame
    /\ UNCHANGED <<_loggers, adapters, returned, calls>>
    /\ UNCHANGED processVars
    /\ UNCHANGED setupVars

\* log.py:374-376 the adapter is built (not yet stored)
Construct(t) ==
    /\ pc[t] = "construct"
    /\ adapters' = Append(adapters,
                          KeywordArgumentAdapter(
                              logging_getLogger(frame[t].name),
                              [project |-> frame[t].project,
                               version |-> frame[t].version]))
    /\ frame' = [frame EXCEPT ![t].new = Len(adapters) + 1]
    /\ pc' = [pc EXCEPT ![t] = "store"]
    /\ UNCHANGED <<_loggers, returned, calls>>
    /\ UNCHANGED processVars
    /\ UNCHANGED setupVars

\* log.py:374 `_loggers[name] = ...`
Store(t) ==
    /\ pc[t] = "store"
    /\ _loggers' = SetItem(_loggers, frame[t].name, frame[t].new)
    /\ pc' = [pc EXCEPT ![t] = "return"]
    /\ UNCHANGED <<adapters, frame, returned, calls>>
    /\ UNCHANGED processVars
    /\ UNCHANGED setupVars

\* log.py:377 `return _loggers[name]`
Return(t) ==
    /\ pc[t] = "return"
    /\ returned' = returned \cup {[name |-> frame[t].name,
                                   adapter |-> _loggers[frame[t].name],
                                   miss |-> frame[t].miss]}
    /\ pc' = [pc EXCEPT ![t] = "idle"]
    /\ frame' = [frame EXCEPT ![t] = IdleFrame]
    /\ UNCHANGED <<_loggers, adapters, calls>>
    /\ UNCHANGED processVars
    /\ UNCHANGED setupVars

\* One step of thread t inside getLogger.
getLogger(t) ==
    \/ \E name \in Names, project \in Projects, version \in Versions :
           Call(t, name, project, version)
    \/ Test(t)
    \/ Construct(t)
    \/ Store(t)
    \/ Return(t)

InitGetLogger ==
    /\ _loggers = EmptyDict
    /\ adapters = <<>>
    /\ pc = [t \in Threads |-> "idle"]
    /\ frame = [t \in Threads |-> IdleFrame]
    /\ returned = {}
    /\ calls = 0

InitNoProcess ==
    /\ self_extra = EmptyDict
    /\ msg = None
    /\ kwargs = EmptyDict
    /\ outcome = None

Init == InitGetLogger /\ InitNoProcess /\ InitNoSetup

\* Threads call getLogger concurrently; a thread switch may fall between any
\* two steps.
Next == \E t \in Threads : getLogger(t)

Spec == Init /\ [][Next]_vars

\* getLogger calls made one at a time: a call starts only when no other is
\* in flight.
Quiet(t) == \A u \in Threads \ {t} : pc[u] = "idle"

NextSeq ==
    \E t \in Threads :
        \/ \E name \in Names, project \in Projects, version \in Versions :
               Quiet(t) /\ Call(t, name, project, version)
        \/ Quiet(t) /\ Test(t)
        \/ Quiet(t) /\ Construct(t)
        \/ Quiet(t) /\ Store(t)
        \/ Quiet(t) /\ Return(t)

SpecSeq == Init /\ [][NextSeq]_vars

\* Concurrent calls that race for two names, all with the default project
\* and version.
NextRace ==
    \E t \in Threads :
        \/ \E name \in {NoneName, "oslo.subname"} :
               Call(t, name, "unknown", "unknown")
        \/ Test(t)
        \/ Construct(t)
        \/ Store(t)
        \/ Return(t)

SpecRace == Init /\ [][NextRace]_vars

(***************************************************************************)
(* Calls and their outcomes.                                               *)
(***************************************************************************)
Pending == [status |-> "pending", exc |-> "", value |-> None]
Returned(v) == [status |-> "returned", exc |-> "", value |-> v]
Raised(e) == [status |-> "raised", exc |-> e, value |-> None]

(***************************************************************************)
(* _ensure_unicode.  A message is a text string (six.text_type, data = its *)
(* code points), a byte string (six.binary_type, data = its bytes) or any  *)
(* other object (data = the code points of its text representation).       *)
(***************************************************************************)
Text(cps) == [kind |-> "text", data |-> cps]
Bytes(bs) == [kind |-> "bytes", data |-> bs]
Object(cps) == [kind |-> "object", data |-> cps]

\* a UTF-8 continuation byte, 0x80..0xBF
IsCont(b) == b >= 128 /\ b <= 191

\* the length of the UTF-8 sequence a lead byte opens, 0 for no lead byte
\* (0x80..0xC1 and 0xF5..0xFF open nothing)
Utf8Length(b) ==
    IF b < 128 THEN 1
    ELSE IF b >= 194 /\ b <= 223 THEN 2
    ELSE IF b >= 224 /\ b <= 239 THEN 3
    ELSE IF b >= 240 /\ b <= 244 THEN 4
    ELSE 0

\* the bytes after the lead byte are well formed (no overlong form, no
\* surrogate, nothing above U+10FFFF)
Utf8TailOk(bs, n) ==
    /\ Len(bs) >= n
    /\ \A i \in 2 .. n : IsCont(bs[i])
    /\ (bs[1] = 224 => bs[2] >= 160)
    /\ (bs[1] = 237 => bs[2] <= 159)
    /\ (bs[1] = 240 => bs[2] >= 144)
    /\ (bs[1] = 244 => bs[2] <= 143)

\* the code point of a well-formed sequence of n bytes
Utf8CodePoint(bs, n) ==
    CASE n = 1 -> bs[1]
      [] n = 2 -> (bs[1] - 192) * 64 + (bs[2] - 128)
      [] n = 3 -> (bs[1] - 224) * 4096 + (bs[2] - 128) * 64 + (bs[3] - 128)
      [] n = 4 -> (bs[1] - 240) * 262144 + (bs[2] - 128) * 4096
                      + (bs[3] - 128) * 64 + (bs[4] - 128)

\* bytes.decode('utf-8') up to its first error: ok is FALSE where the codec
\* meets a UnicodeDecodeError
RECURSIVE Utf8Decode(_)
Utf8Decode(bs) ==
    IF bs = <<>> THEN [ok |-> TRUE, cps |-> <<>>]
    ELSE LET n == Utf8Length(Head(bs))
         IN IF n = 0 \/ ~Utf8TailOk(bs, n)
            THEN [ok |-> FALSE, cps |-> <<>>]
            ELSE LET rest == Utf8Decode(SubSeq(bs, n + 1, Len(bs)))
                 IN [ok |-> rest.ok,
                     cps |-> IF rest.ok
                             THEN <<Utf8CodePoint(bs, n)>> \o rest.cps
                             ELSE <<>>]

\* encodeutils.safe_decode(msg, incoming='utf-8', errors='xmlcharrefreplace')
\* for a byte string: msg.decode('utf-8', 'xmlcharrefreplace').  The
\* xmlcharrefreplace handler serves encoding errors only: handed a
\* UnicodeDecodeError it raises TypeError, which safe_decode (it catches
\* UnicodeDecodeError alone) lets through.
safe_decode(bs) ==
    LET d == Utf8Decode(bs)
    IN IF d.ok THEN Returned(Text(d.cps)) ELSE Raised("TypeError")

\* log.py:87-99
_ensure_unicode(m) ==
    IF m.kind # "text"
    THEN IF m.kind = "bytes"
         THEN safe_decode(m.data)
         ELSE Returned(Text(m.data))
    ELSE Returned(m)

\* the sequences over S of length n, and of length at most n
SeqsOfLen(S, n) == [1 .. n -> S]
SeqsUpTo(S, n) == UNION {SeqsOfLen(S, k) : k \in 0 .. n}

\* 'A', a continuation byte, the leads of a 2- and of a 3-byte sequence, and
\* a byte no UTF-8 text holds
ByteValues == {65, 128, 195, 234, 255}
\* 'A', U+00C0, U+A000
CodePoints == {65, 192, 40960}

Messages ==
    {Text(c) : c \in SeqsUpTo(CodePoints, MaxLen)}
        \cup {Bytes(b) : b \in SeqsUpTo(ByteValues, MaxLen)}
        \cup {Object(c) : c \in SeqsUpTo(CodePoints, MaxLen)}

InitUnicode ==
    /\ InitGetLogger
    /\ InitNoSetup
    /\ self_extra = EmptyDict
    /\ kwargs = EmptyDict
    /\ msg \in Messages
    /\ outcome = Pending

\* one call _ensure_unicode(msg)
EnsureUnicode ==
    /\ outcome.status = "pending"
    /\ outcome' = _ensure_unicode(msg)
    /\ UNCHANGED <<self_extra, msg, kwargs>>
    /\ UNCHANGED getLoggerVars
    /\ UNCHANGED setupVars

SpecUnicode == InitUnicode /\ [][EnsureUnicode]_vars

(***************************************************************************)
(* KeywordArgumentAdapter.process.  A dict is a function from its keys to  *)
(* values.  Keys are written as strings; a key that is not a str is        *)
(* written as its repr and listed in IntKeys.                              *)
(***************************************************************************)
IntKey == "1"
IntKeys == {IntKey}
KeyType(k) == IF k \in IntKeys THEN "int" ELSE "str"

\* the str keys of the model in Python's (code point) order
StrOrder == <<"exc_info", "extra", "extra_keys", "foo", "project", "resource",
              "version">>
KeyRank(k) ==
    IF k \in IntKeys THEN 0
    ELSE CHOOSE i \in 1 .. Len(StrOrder) : StrOrder[i] = k

\* a < b between two keys of one type
KeyLess(a, b) == KeyRank(a) < KeyRank(b)

\* Python 3 orders a str against an int with TypeError
Orderable(S) == \A a, b \in S : KeyType(a) = KeyType(b)

\* sorted(keys) for keys that can be ordered
RECURSIVE sorted(_)
sorted(S) ==
    IF S = {} THEN <<>>
    ELSE LET least == CHOOSE a \in S : \A b \in S \ {a} : KeyLess(a, b)
         IN <<least>> \o sorted(S \ {least})

\* What dict.update(arg) raises, "" when it raises nothing: None and an int
\* are not iterable, the elements of a non-empty str are no key/value pairs.
UpdateError(arg) ==
    CASE arg.kind = "dict" -> ""
      [] arg.kind = "None" -> "TypeError"
      [] arg.kind = "int" -> "TypeError"
      [] arg.kind = "str" -> IF arg.s = "" THEN "" ELSE "ValueError"

\* the entries dict.update(arg) takes from arg
Entries(arg) == IF arg.kind = "dict" THEN arg.m ELSE EmptyDict

\* the two updates in the wrong order: the constructor's values overwrite
\* the ones of the extra keyword
MergeExtra_defaultsLast(self, kw) ==
    IF "extra" \in DOMAIN kw
    THEN Update(Update(EmptyDict, Entries(kw["extra"])), self)
    ELSE Update(EmptyDict, self)

\* log.py:124-127 the new extra dictionary: the constructor's values, then
\* the ones of the extra keyword
MergeExtra(self, kw) ==
    LET extra == Update(EmptyDict, self)
    IN IF "extra" \in DOMAIN kw
       THEN Update(extra, Entries(kw["extra"]))
       ELSE extra

\* exc_info not skipped: it moves into extra like every other keyword
RECURSIVE MoveKeywords_all(_, _, _)
MoveKeywords_all(names, extra, kw) ==
    IF names = {} THEN [extra |-> extra, kwargs |-> kw]
    ELSE LET name == CHOOSE n \in names : TRUE
         IN MoveKeywords_all(names \ {name},
                             SetItem(extra, name, kw[name]),
                             Pop(kw, name))

\* log.py:130-133 every keyword but exc_info moves from kwargs into extra;
\* kw is kwargs after the pop of line 127
RECURSIVE MoveKeywords(_, _, _)
MoveKeywords(names, extra, kw) ==
    IF names = {} THEN [extra |-> extra, kwargs |-> kw]
    ELSE LET name == CHOOSE n \in names : TRUE
         IN IF name = "exc_info"
            THEN MoveKeywords(names \ {name}, extra, kw)
            ELSE MoveKeywords(names \ {name},
                              SetItem(extra, name, kw[name]),
                              Pop(kw, name))

\* the keys in descending order
ExtraKeys_descending(extra) ==
    LET up == sorted(DOMAIN extra)
    IN List([i \in 1 .. Len(up) |-> up[Len(up) + 1 - i]])

\* log.py:144 list(sorted(extra.keys()))
ExtraKeys(extra) == List(sorted(DOMAIN extra))

\* '[' + a + b + ... for the operands in parts: str concatenation raises
\* TypeError on an operand that is not a str
RECURSIVE Concat(_)
Concat(parts) ==
    IF parts = <<>> THEN Returned(Str(""))
    ELSE LET rest == Concat(Tail(parts))
         IN IF Head(parts).kind # "str" \/ rest.status = "raised"
            THEN Raised("TypeError")
            ELSE Returned(Str(Head(parts).s \o rest.value.s))

\* type and id tried before name
ResolveResource_typeFirst(extra) ==
    LET resource == Get(extra, "resource", None)
    IN IF ~Truthy(resource) THEN Returned(extra)
       ELSE IF resource.kind # "dict" THEN Raised("AttributeError")
       ELSE LET resource_type == Get(resource.m, "type", None)
                resource_id == Get(resource.m, "id", None)
                parts == IF Truthy(resource_type) /\ Truthy(resource_id)
                         THEN <<Str("["), resource_type, Str("-"),
                                resource_id, Str("] ")>>
                         ELSE <<Str("["), Get(resource.m, "name", Str("")),
                                Str("] ")>>
                label == Concat(parts)
            IN IF ~(Truthy(resource_type) /\ Truthy(resource_id))
                  /\ ~Truthy(Get(resource.m, "name", None))
               THEN Returned(extra)
               ELSE IF label.status = "raised" THEN label
               ELSE Returned(SetItem(extra, "resource", label.value))

\* log.py:155-179 the resource entry of the extra dictionary becomes a
\* bracketed label; the outcome holds the extra dictionary
ResolveResource(extra) ==
    LET resource == Get(extra, "resource", None)
    IN IF ~Truthy(resource) THEN Returned(extra)
       ELSE IF resource.kind # "dict" THEN Raised("AttributeError")
       ELSE IF ~Truthy(Get(resource.m, "name", None))
       THEN LET resource_type == Get(resource.m, "type", None)
                resource_id == Get(resource.m, "id", None)
            IN IF Truthy(resource_type) /\ Truthy(resource_id)
               THEN LET label == Concat(<<Str("["), resource_type, Str("-"),
                                          resource_id, Str("] ")>>)
                    IN IF label.status = "raised" THEN label
                       ELSE Returned(SetItem(extra, "resource", label.value))
               ELSE Returned(extra)
       ELSE LET label == Concat(<<Str("["), Get(resource.m, "name", Str("")),
                                  Str("] ")>>)
            IN IF label.status = "raised" THEN label
               ELSE Returned(SetItem(extra, "resource", label.value))

\* log.py:120-181 process(self, msg, kwargs) for an adapter whose bound
\* defaults (self.extra) are `self`; the value returned is (msg, kwargs)
process(self, m, kw) ==
    LET text == _ensure_unicode(m)
    IN IF text.status = "raised" THEN text
       ELSE IF "extra" \in DOMAIN kw /\ UpdateError(kw["extra"]) # ""
       THEN Raised(UpdateError(kw["extra"]))
       ELSE LET merged == MergeExtra(self, kw)
                rest == Pop(kw, "extra")
                moved == MoveKeywords(DOMAIN rest, merged, rest)
            IN IF ~Orderable(DOMAIN moved.extra) THEN Raised("TypeError")
               ELSE LET extra == SetItem(moved.extra, "extra_keys",
                                         ExtraKeys(moved.extra))
                        resolved == ResolveResource(extra)
                    IN IF resolved.status = "raised" THEN resolved
                       ELSE Returned([msg |-> text.value,
                                      kwargs |-> SetItem(moved.kwargs, "extra",
                                                         Dict(resolved.value))])

(***************************************************************************)
(* The calls of process the model makes.                                   *)
(***************************************************************************)

\* the dicts whose keys are a subset of K and whose value at k is in V[k]
RECURSIVE DictsOver(_, _)
DictsOver(K, V) ==
    IF K = {} THEN {EmptyDict}
    ELSE LET key == CHOOSE k \in K : TRUE
             others == DictsOver(K \ {key}, V)
         IN others \cup {SetItem(d, key, v) : d \in others, v \in V[key]}

\* what callers pass as resource: nothing usable, a str, or a mapping with
\* any of name, type and id, each possibly empty and the id possibly an int
ResourceFields ==
    [name |-> {Str(""), Str("n")},
     type |-> {Str(""), Str("t")},
     id |-> {Str(""), Str("i"), Int("7")}]
ResourceValues ==
    {None, Str(""), Str("vol-1")}
        \cup {Dict(d) : d \in DictsOver({"name", "type", "id"}, ResourceFields)}

\* the defaults bound at construction (self.extra)
DefaultFields ==
    [foo |-> {Str("blah")}, project |-> {Str("nova")}]
Defaults == DictsOver({"foo", "project"}, DefaultFields)

\* the extra keyword: None, not a mapping, or a mapping
ExtraFields ==
    [k \in {"foo", "exc_info", "extra_keys", "resource", IntKey} |->
        CASE k = "foo" -> {Str("foo in extra")}
          [] k = "exc_info" -> {Str("exc_info in extra")}
          [] k = "extra_keys" -> {Str("keys in extra")}
          [] k = "resource" -> {Str("vol-2"), Dict([name |-> Str("m")])}
          [] k = IntKey -> {Str("one")}]
ExtraArguments ==
    {None, Int("5"), Str(""), Str("abc")}
        \cup {Dict(d) : d \in DictsOver(DOMAIN ExtraFields, ExtraFields)}

\* the other keywords of the log call
KeywordFields ==
    [foo |-> {Str("foo keyword")},
     exc_info |-> {Str("the info")},
     extra_keys |-> {Str("keys keyword")},
     resource |-> ResourceValues,
     extra |-> ExtraArguments]
KeywordArguments ==
    DictsOver({"foo", "exc_info", "extra_keys", "resource", "extra"},
              KeywordFields)

\* a byte string that decodes (to U+00C0) and one that does not
ProcessMessages == {Bytes(<<195, 128>>), Bytes(<<255>>)}

InitProcess ==
    /\ InitGetLogger
    /\ InitNoSetup
    /\ self_extra \in Defaults
    /\ msg \in ProcessMessages
    /\ kwargs \in KeywordArguments
    /\ outcome = Pending

\* one call adapter.process(msg, kwargs)
Process ==
    /\ outcome.status = "pending"
    /\ outcome' = process(self_extra, msg, kwargs)
    /\ UNCHANGED <<self_extra, msg, kwargs>>
    /\ UNCHANGED getLoggerVars
    /\ UNCHANGED setupVars

SpecProcess == InitProcess /\ [][Process]_vars

(***************************************************************************)
(* A log call on the adapter.  logging.LoggerAdapter runs process and      *)
(* hands what it returns to the underlying logger; an exception of process *)
(* leaves the call before the logger is reached.  The logger is enabled    *)
(* for the severity, as the mock logger of KeywordArgumentAdapterTestCase  *)
(* is.  Dicts are objects: self_extra and the mapping under kwargs.extra   *)
(* stay with the caller after the call, and hold what the call wrote.      *)
(***************************************************************************)

\* the extra dictionary bound to the adapter's own defaults, no new one made
NewExtra_self == "self"

\* log.py:124 `extra = {}`: the object the writes of process go to is a new
\* dict, neither self.extra ("self") nor the caller's mapping ("given")
NewExtra == "new"

\* log.py:124-179 what the extra dictionary holds when process is left, by
\* return or by exception
ProcessExtra(self, m, kw) ==
    LET merged == MergeExtra(self, kw)
        rest == Pop(kw, "extra")
        moved == MoveKeywords(DOMAIN rest, merged, rest)
        keyed == SetItem(moved.extra, "extra_keys", ExtraKeys(moved.extra))
        made == process(self, m, kw)
    IN  IF made.status = "returned" THEN made.value.kwargs["extra"].m
        ELSE IF "extra" \in DOMAIN kw /\ UpdateError(kw["extra"]) # ""
        THEN Update(EmptyDict, self)
        ELSE IF ~Orderable(DOMAIN moved.extra) THEN moved.extra
        ELSE keyed

\* one call adapter.log(level, msg, **kwargs), or the method of the severity
Log(level) ==
    /\ calls < MaxCalls
    /\ calls' = calls + 1
    /\ \E made \in {process(self_extra, msg, kwargs)},
          target \in {IF _ensure_unicode(msg).status = "raised"
                      THEN "none" ELSE NewExtra} :
           /\ IF made.status = "returned"
              THEN /\ emitted' = Append(emitted,
                                        [logger |-> "mock_log",
                                         levelno |-> level,
                                         msg |-> made.value.msg,
                                         kwargs |-> made.value.kwargs])
                   /\ outcome' = Returned(None)
              ELSE /\ emitted' = emitted
                   /\ outcome' = made
           /\ self_extra' = IF target = "self"
                            THEN ProcessExtra(self_extra, msg, kwargs)
                            ELSE self_extra
           /\ kwargs' = IF target = "given" /\ "extra" \in DOMAIN kwargs
                        THEN SetItem(kwargs, "extra",
                                     Dict(ProcessExtra(self_extra, msg,
                                                       kwargs)))
                        ELSE kwargs
    /\ before' = [NoCall EXCEPT !.call = "log", !.level = level]
    /\ UNCHANGED msg
    /\ UNCHANGED <<_loggers, adapters, pc, frame, returned>>
    /\ UNCHANGED <<conf, env, binary, log_root, levels, created, excepthook,
                   record>>
    /\ UNCHANGED emitVars

\* the adapters and keywords of KeywordArgumentAdapterTestCase, a resource
\* as a bare keyword, and an extra keyword that is a mapping or is not
InitLog ==
    /\ InitGetLogger
    /\ InitNoSetup
    /\ self_extra \in Defaults
    /\ msg \in ProcessMessages
    /\ kwargs \in DictsOver(
           {"foo", "exc_info", "resource", "extra"},
           [foo |-> {Str("foo keyword")},
            exc_info |-> {Str("the info")},
            resource |-> {Str("vol-1"),
                          Dict([type |-> Str("t"), id |-> Str("i")])},
            extra |-> {Int("5")}
                      \cup {Dict(d) : d \in DictsOver({"foo", "resource"},
                                                      ExtraFields)}])
    /\ outcome = Pending

NextLog == \E level \in {DEBUG, ERROR} : Log(level)

SpecLog == InitLog /\ [][NextLog]_vars

(***************************************************************************)
(* _get_log_file_path.                                                     *)
(***************************************************************************)
StartsWith(t, prefix) ==
    Len(t) >= Len(prefix) /\ SubSeq(t, 1, Len(prefix)) = prefix

EndsWith(t, suffix) ==
    Len(t) >= Len(suffix)
    /\ SubSeq(t, Len(t) - Len(suffix) + 1, Len(t)) = suffix

\* a variant of os.path.join in which the second path never replaces the first
os_path_join_append(a, b) ==
    IF a = <<>> \/ EndsWith(a, <<"/">>) THEN a \o b ELSE a \o <<"/">> \o b

\* os.path.join(a, b) of posixpath
os_path_join(a, b) ==
    IF StartsWith(b, <<"/">>) THEN b
    ELSE IF a = <<>> \/ EndsWith(a, <<"/">>) THEN a \o b
    ELSE a \o <<"/">> \o b

\* log.py:52-66; a returned None is NoneText
_get_log_file_path(c, bin, e) ==
    LET logfile == c.log_file
        logdir == c.log_dir
    IN  IF TextTruthy(logfile) /\ ~TextTruthy(logdir) THEN logfile
        ELSE IF TextTruthy(logfile) /\ TextTruthy(logdir)
        THEN os_path_join(logdir, logfile)
        ELSE IF TextTruthy(logdir)
        THEN LET b == IF TextTruthy(bin) THEN bin ELSE e.binary_name
             IN  os_path_join(logdir, b) \o <<".", "l", "o", "g">>
        ELSE NoneText

\* log_file and log_dir are unset (None or empty), relative or absolute; the
\* binary argument is given or not; the running program has one of two
\* names
InitLogPath ==
    /\ InitGetLogger
    /\ self_extra = EmptyDict
    /\ msg = None
    /\ kwargs = EmptyDict
    /\ outcome = Pending
    /\ \E lf \in {NoneText, <<>>, <<"f">>, <<"/", "f">>, <<"a", "/", "f">>},
          ld \in {NoneText, <<>>, <<"d">>, <<"/", "d">>, <<"/", "d", "/">>} :
           conf = [DefaultConf EXCEPT !.log_file = lf, !.log_dir = ld]
    /\ \E b \in {<<"b">>, <<"b", "-", "c">>} :
           env = [DefaultEnv EXCEPT !.binary_name = b]
    /\ binary \in {NoneText, <<>>, <<"n">>}
    /\ log_root = FreshRoot
    /\ levels = [n \in {} |-> IntLevel(NOTSET)]
    /\ created = 0
    /\ excepthook = "sys.__excepthook__"
    /\ emitted = <<>>
    /\ before = NoCall
    /\ record = NoRecord
    /\ InitNoEmit

\* one call _get_log_file_path(conf, binary)
GetLogFilePath ==
    /\ outcome.status = "pending"
    /\ outcome' = [status |-> "returned", exc |-> "",
                   value |-> _get_log_file_path(conf, binary, env)]
    /\ UNCHANGED <<self_extra, msg, kwargs>>
    /\ UNCHANGED getLoggerVars
    /\ UNCHANGED setupVars

SpecLogPath == InitLogPath /\ [][GetLogFilePath]_vars

(***************************************************************************)
(* _find_facility.                                                         *)
(***************************************************************************)
LowerCase ==
    <<"a", "b", "c", "d", "e", "f", "g", "h", "i", "j", "k", "l", "m",
      "n", "o", "p", "q", "r", "s", "t", "u", "v", "w", "x", "y", "z">>
UpperCase ==
    <<"A", "B", "C", "D", "E", "F", "G", "H", "I", "J", "K", "L", "M",
      "N", "O", "P", "Q", "R", "S", "T", "U", "V", "W", "X", "Y", "Z">>

\* a variant of str.upper that changes nothing
upper_unchanged(t) == t

\* str.upper, for ASCII text
upper(t) ==
    [i \in 1 .. Len(t) |->
        IF \E j \in 1 .. Len(LowerCase) : LowerCase[j] = t[i]
        THEN UpperCase[CHOOSE j \in 1 .. Len(LowerCase) : LowerCase[j] = t[i]]
        ELSE t[i]]

\* log.py:267-273 the names _find_facility looks for in the syslog module
FacilityNames ==
    <<LOG(<<"K", "E", "R", "N">>),
      LOG(<<"U", "S", "E", "R">>),
      LOG(<<"M", "A", "I", "L">>),
      LOG(<<"D", "A", "E", "M", "O", "N">>),
      LOG(<<"A", "U", "T", "H">>),
      LOG(<<"S", "Y", "S", "L", "O", "G">>),
      LOG(<<"L", "P", "R">>),
      LOG(<<"N", "E", "W", "S">>),
      LOG(<<"U", "U", "C", "P">>),
      LOG(<<"C", "R", "O", "N">>),
      LOG(<<"A", "U", "T", "H", "P", "R", "I", "V">>),
      LOG(<<"F", "T", "P">>),
      LOG(<<"L", "O", "C", "A", "L", "0">>),
      LOG(<<"L", "O", "C", "A", "L", "1">>),
      LOG(<<"L", "O", "C", "A", "L", "2">>),
      LOG(<<"L", "O", "C", "A", "L", "3">>),
      LOG(<<"L", "O", "C", "A", "L", "4">>),
      LOG(<<"L", "O", "C", "A", "L", "5">>),
      LOG(<<"L", "O", "C", "A", "L", "6">>),
      LOG(<<"L", "O", "C", "A", "L", "7">>)>>

\* log.py:266-274 `getattr(syslog, f, None)` is tested for truth: a name
\* the module lacks and a facility whose constant is 0 are both left out
valid_facilities(syslog) ==
    SelectSeq(FacilityNames,
              LAMBDA f : f \in DOMAIN syslog /\ syslog[f] # 0)

\* log.py:263-286
_find_facility(facility, syslog) ==
    LET up == upper(facility)
        name == IF ~StartsWith(up, LOG(<<>>)) THEN LOG(up) ELSE up
    IN  IF \A i \in 1 .. Len(valid_facilities(syslog)) :
               valid_facilities(syslog)[i] # name
        THEN [status |-> "raised", exc |-> "TypeError", value |-> 0]
        ELSE [status |-> "returned", exc |-> "", value |-> syslog[name]]

\* Linux, and a platform whose syslog module has no LOG_AUTHPRIV either
Platforms ==
    {LinuxSyslog,
     [f \in DOMAIN LinuxSyslog
             \ {LOG(<<"A", "U", "T", "H", "P", "R", "I", "V">>)} |->
         LinuxSyslog[f]]}

\* the facility names given: every base name in lower case, in upper case
\* and capitalised, alone and after "log_", "LOG_" and "Log_"
BaseNames ==
    {<<"u", "s", "e", "r">>,
     <<"k", "e", "r", "n">>,
     <<"l", "p", "r">>,
     <<"u", "u", "c", "p">>,
     <<"l", "o", "c", "a", "l", "3">>,
     <<"f", "t", "p">>,
     <<"a", "u", "t", "h", "p", "r", "i", "v">>,
     <<"f", "o", "u", "g", "e", "r", "e">>,
     <<>>}
Facilities ==
    LET Capitalized(t) ==
            IF t = <<>> THEN t
            ELSE upper(SubSeq(t, 1, 1)) \o SubSeq(t, 2, Len(t))
    IN  {p \o n :
            p \in {<<>>, <<"l", "o", "g", "_">>, LOG(<<>>),
                   <<"L", "o", "g", "_">>},
            n \in UNION {{b, upper(b), Capitalized(b)} : b \in BaseNames}}

InitFacility ==
    /\ InitGetLogger
    /\ self_extra = EmptyDict
    /\ msg = None
    /\ kwargs = EmptyDict
    /\ outcome = Pending
    /\ \E f \in Facilities :
           conf = [DefaultConf EXCEPT !.syslog_log_facility = f]
    /\ \E s \in Platforms : env = [DefaultEnv EXCEPT !.syslog = s]
    /\ binary = NoneText
    /\ log_root = FreshRoot
    /\ levels = [n \in {} |-> IntLevel(NOTSET)]
    /\ created = 0
    /\ excepthook = "sys.__excepthook__"
    /\ emitted = <<>>
    /\ before = NoCall
    /\ record = NoRecord
    /\ InitNoEmit

\* one call _find_facility(conf.syslog_log_facility)
FindFacility ==
    /\ outcome.status = "pending"
    /\ outcome' = _find_facility(conf.syslog_log_facility, env.syslog)
    /\ UNCHANGED <<self_extra, msg, kwargs>>
    /\ UNCHANGED getLoggerVars
    /\ UNCHANGED setupVars

SpecFacility == InitFacility /\ [][FindFacility]_vars

(***************************************************************************)
(* setup and _setup_logging_from_conf.                                     *)
(*                                                                         *)
(* A call works on a world w: the root logger, the levels of the other     *)
(* loggers, the number of handlers created and the records logged.  Each   *)
(* statement group is a step from a world to a result [w, exc]; exc is the *)
(* exception raised, "" if none, and w then holds what was done before it. *)
(***************************************************************************)
World == [root |-> log_root, levels |-> levels, created |-> created,
          emitted |-> emitted]

Done(w) == [w |-> w, exc |-> ""]
Fail(w, exc) == [w |-> w, exc |-> exc]

\* run step on the world of r unless r already raised
Then(r, step(_)) == IF r.exc # "" THEN r ELSE step(r.w)

\* handler objects; id is the identity of the object, and a handler is
\* made without formatter
Handler(id, class, path, facility, level) ==
    [id |-> id, class |-> class, path |-> path, facility |-> facility,
     level |-> level,
     formatter |-> [class |-> "None", fmt |-> NoneText, project |-> ""]]

\* list.remove(x): the first element equal to x goes
RECURSIVE ListRemove(_, _)
ListRemove(l, x) ==
    IF l = <<>> THEN l
    ELSE IF Head(l) = x THEN Tail(l)
    ELSE <<Head(l)>> \o ListRemove(Tail(l), x)

\* Logger.removeHandler
removeHandler(hs, h) ==
    IF \E i \in 1 .. Len(hs) : hs[i] = h THEN ListRemove(hs, h) ELSE hs

\* Logger.addHandler
addHandler(hs, h) ==
    IF \E i \in 1 .. Len(hs) : hs[i] = h THEN hs ELSE Append(hs, h)

\* log.py:291-292 `for handler in log_root.handlers:
\*                     log_root.removeHandler(handler)`
\* The for loop reads the list by position, i being the next position (from
\* 1), while the body shortens that same list.
RECURSIVE RemoveHandlers(_, _)
RemoveHandlers(hs, i) ==
    IF i > Len(hs) THEN hs
    ELSE RemoveHandlers(removeHandler(hs, hs[i]), i + 1)

\* a new handler is created and added to the root logger
WithHandler(w, class, path, facility, level) ==
    [w EXCEPT !.created = @ + 1,
              !.root.handlers =
                  addHandler(@, Handler(w.created + 1, class, path,
                                        facility, level))]

\* Logger.isEnabledFor on a level attribute: Python 2 orders every int
\* before every str
LevelEnables(level, severity) ==
    IF level.kind = "int" THEN severity >= level.n ELSE FALSE

\* log.py:290-292
StepRemove(w) == Done([w EXCEPT !.root.handlers = RemoveHandlers(@, 1)])

\* log.py:294-297
StepFile(w, c, e) ==
    LET logpath == _get_log_file_path(c, NoneText, e)
    IN  IF TextTruthy(logpath)
        THEN Done(WithHandler(w, "WatchedFileHandler", logpath, 0, NOTSET))
        ELSE Done(w)

\* log.py:299-307
StepStream(w, c, e) ==
    LET logpath == _get_log_file_path(c, NoneText, e)
    IN  IF c.use_stderr
        THEN Done(WithHandler(w, "ColorHandler", NoneText, 0, NOTSET))
        ELSE IF ~TextTruthy(logpath)
        THEN Done(WithHandler(w, "StreamHandler", <<"s", "t", "d", "o", "u", "t">>,
                              0, NOTSET))
        ELSE Done(w)

\* log.py:309-313
StepPublish(w, c) ==
    IF c.publish_errors
    THEN Done(WithHandler(
             w, "oslo.messaging.notify.log_handler.PublishErrorsHandler",
             NoneText, 0, ERROR))
    ELSE Done(w)

\* log.py:315-322
StepSyslog(w, c, e) ==
    IF c.use_syslog
    THEN LET found == _find_facility(c.syslog_log_facility, e.syslog)
         IN  IF found.status = "raised" THEN Fail(w, found.exc)
             ELSE Done(WithHandler(w, "OSSysLogHandler", NoneText,
                                   found.value, NOTSET))
    ELSE Done(w)

\* a variant of the formatter loop that leaves the first handler alone
RECURSIVE SetFormatters_skipFirst(_, _, _, _)
SetFormatters_skipFirst(w, c, project, i) ==
    IF i > Len(w.root.handlers) THEN w
    ELSE IF i = 1 THEN SetFormatters_skipFirst(w, c, project, i + 1)
    ELSE SetFormatters_skipFirst(
             [w EXCEPT !.root.handlers[i].formatter =
                           [class |-> "ContextFormatter", fmt |-> NoneText,
                            project |-> project]],
             c, project, i + 1)

\* log.py:324-337 the loop over log_root.handlers, i the next position; the
\* message logged is written by its first letter, D
RECURSIVE SetFormatters(_, _, _, _)
SetFormatters(w, c, project, i) ==
    IF i > Len(w.root.handlers) THEN w
    ELSE IF TextTruthy(c.log_format)
    THEN SetFormatters(
             [w EXCEPT !.root.handlers[i].formatter =
                           [class |-> "Formatter", fmt |-> c.log_format,
                            project |-> ""],
                       !.emitted =
                           IF LevelEnables(w.root.level, INFO)
                           THEN Append(@, [logger |-> "root",
                                           levelno |-> INFO,
                                           msg |-> Text(<<68>>),
                                           kwargs |-> EmptyDict])
                           ELSE @],
             c, project, i + 1)
    ELSE SetFormatters(
             [w EXCEPT !.root.handlers[i].formatter =
                           [class |-> "ContextFormatter", fmt |-> NoneText,
                            project |-> project]],
             c, project, i + 1)

\* a variant of the level choice that looks at verbose first
RootLevel_verboseFirst(c) ==
    IF c.verbose THEN INFO ELSE IF c.debug THEN DEBUG ELSE WARNING

\* log.py:339-344
RootLevel(c) ==
    IF c.debug THEN DEBUG ELSE IF c.verbose THEN INFO ELSE WARNING

\* logging's level names (logging._levelNames)
LevelNames ==
    (<<"C", "R", "I", "T", "I", "C", "A", "L">> :> CRITICAL)
    @@ (<<"E", "R", "R", "O", "R">> :> ERROR)
    @@ (<<"W", "A", "R", "N">> :> WARNING)
    @@ (<<"W", "A", "R", "N", "I", "N", "G">> :> WARNING)
    @@ (<<"I", "N", "F", "O">> :> INFO)
    @@ (<<"D", "E", "B", "U", "G">> :> DEBUG)
    @@ (<<"N", "O", "T", "S", "E", "T">> :> NOTSET)

\* str.partition('='): the text before the first '=' and the text after it
partition(t) ==
    IF \E i \in 1 .. Len(t) : t[i] = "="
    THEN LET at == CHOOSE i \in 1 .. Len(t) :
                       /\ t[i] = "="
                       /\ \A j \in 1 .. i - 1 : t[j] # "="
         IN  [mod |-> SubSeq(t, 1, at - 1),
              level_name |-> SubSeq(t, at + 1, Len(t))]
    ELSE [mod |-> t, level_name |-> <<>>]

\* Logger.setLevel: the logger called mod (the root logger for the empty
\* name) gets the level
setLevel(w, mod, level) ==
    IF mod = <<>> THEN [w EXCEPT !.root.level = level]
    ELSE [w EXCEPT !.levels = SetItem(@, mod, level)]

\* logging.getLogger(mod): the logger exists from now on
WithLogger(w, mod) ==
    IF mod = <<>> \/ mod \in DOMAIN w.levels THEN w
    ELSE [w EXCEPT !.levels = SetItem(@, mod, IntLevel(NOTSET))]

\* log.py:347-355 the body of the loop over conf.default_log_levels.
\* Python 2.6: getLevelName gives the number of a known name and the str
\* "Level <name>" for any other, and setLevel stores what it is given.
\* Later Pythons: setLevel takes the number of a known name and raises
\* ValueError for any other str.
SetLogLevel(w, pair, e) ==
    LET p == partition(pair)
        made == WithLogger(w, p.mod)
    IN  IF p.level_name \in DOMAIN LevelNames
        THEN Done(setLevel(made, p.mod, IntLevel(LevelNames[p.level_name])))
        ELSE IF e.py26
        THEN Done(setLevel(made, p.mod,
                           StrLevel(<<"L", "e", "v", "e", "l", " ">>
                                    \o p.level_name)))
        ELSE Fail(made, "ValueError")

\* log.py:346-355 the loop, i the next position in conf.default_log_levels
RECURSIVE StepLogLevels(_, _, _, _)
StepLogLevels(w, c, e, i) ==
    IF i > Len(c.default_log_levels) THEN Done(w)
    ELSE LET r == SetLogLevel(w, c.default_log_levels[i], e)
         IN  IF r.exc # "" THEN r ELSE StepLogLevels(r.w, c, e, i + 1)

\* log.py:289-355
_setup_logging_from_conf(w, c, e, project) ==
    LET r1 == StepRemove(w)
        r2 == Then(r1, LAMBDA x : StepFile(x, c, e))
        r3 == Then(r2, LAMBDA x : StepStream(x, c, e))
        r4 == Then(r3, LAMBDA x : StepPublish(x, c))
        r5 == Then(r4, LAMBDA x : StepSyslog(x, c, e))
        r6 == Then(r5, LAMBDA x : Done(SetFormatters(x, c, project, 1)))
        r7 == Then(r6, LAMBDA x : Done([x EXCEPT !.root.level =
                                                    IntLevel(RootLevel(c))]))
    IN  Then(r7, LAMBDA x : StepLogLevels(x, c, e, 1))

\* logging.config.fileConfig on the file log_config_append names.  A file
\* that is missing or cannot be read is skipped by the parser, and the
\* sections are then missed: NoSectionError (a configparser.Error) in
\* Python 2, KeyError in Python 3.  Text that is no configuration file is a
\* configparser.Error.  A file that parses but names a handler class that
\* cannot be imported is an ImportError.  The file that loads is the one of
\* the unit tests, which gives the root logger no handler.
fileConfig(w, e) ==
    CASE e.config_file = "ok" -> Done([w EXCEPT !.root.handlers = <<>>])
      [] e.config_file \in {"missing", "unreadable"} ->
             Fail(w, IF e.py26 THEN "configparser.Error" ELSE "KeyError")
      [] e.config_file = "malformed" -> Fail(w, "configparser.Error")
      [] e.config_file = "bad_handler" -> Fail(w, "ImportError")

\* log.py:206-211
_load_log_config(w, e) ==
    LET r == fileConfig(w, e)
    IN  IF r.exc \in {"configparser.Error", "KeyError"}
        THEN Fail(r.w, "LogConfigError")
        ELSE r

\* log.py:225-228
SetupBody(w, c, e, product_name) ==
    IF TextTruthy(c.log_config_append)
    THEN _load_log_config(w, e)
    ELSE _setup_logging_from_conf(w, c, e, product_name)

\* a variant that makes the hook of one product for every product
_create_logging_excepthook_nova(product_name) == "nova"

\* log.py:184-190 the hook made for a product name
_create_logging_excepthook(product_name) == product_name

\* getLogger run from start to end by one thread: the cache and the heap
\* after the call
Cached(name, project, version) ==
    IF NotInLoggers(name, _loggers)
    THEN [cache |-> SetItem(_loggers, name, Len(adapters) + 1),
          heap |-> Append(adapters,
                          KeywordArgumentAdapter(
                              logging_getLogger(name),
                              [project |-> project, version |-> version]))]
    ELSE [cache |-> _loggers, heap |-> adapters]

\* the product names given to setup, and the exceptions that reach the hook
ProductNames == {"nova", "glance"}
Exceptions == {"Exception", "KeyError"}

\* bounds: the number of handlers on the root logger before the first call,
\* and the number of calls of setup and of the hook in one run
MaxHandlers == 3
MaxSetupCalls == 2

\* handlers the application attached itself, as
\* LogConfigOptsTestCase.test_handlers_cleanup does
OldHandlers(n) ==
    [i \in 1 .. n |-> Handler(i, "ColorHandler", NoneText, 0, NOTSET)]

\* one call setup(conf, product_name)
Setup(product_name) ==
    /\ calls < MaxSetupCalls
    /\ calls' = calls + 1
    /\ \E got \in {IF TextTruthy(conf.log_config_append)
                   THEN [cache |-> _loggers, heap |-> adapters]
                   ELSE Cached(NoneName, "unknown", "unknown")},
          r \in {SetupBody(World, conf, env, product_name)} :
           /\ _loggers' = got.cache
           /\ adapters' = got.heap
           /\ log_root' = r.w.root
           /\ levels' = r.w.levels
           /\ created' = r.w.created
           /\ emitted' = r.w.emitted
           /\ excepthook' = IF r.exc = ""
                            THEN _create_logging_excepthook(product_name)
                            ELSE excepthook
           /\ outcome' = IF r.exc = "" THEN Returned(None) ELSE Raised(r.exc)
    /\ before' = [call |-> "setup", product |-> product_name, exc |-> "",
                  level |-> NOTSET,
                  log_root |-> log_root, excepthook |-> excepthook]
    /\ UNCHANGED <<pc, frame, returned, self_extra, msg, kwargs>>
    /\ UNCHANGED <<conf, env, binary, record>>
    /\ UNCHANGED emitVars

\* one call _setup_logging_from_conf(conf, project, version), made directly
SetupLoggingFromConf(project) ==
    /\ calls < MaxSetupCalls
    /\ calls' = calls + 1
    /\ ~TextTruthy(conf.log_config_append)
    /\ \E got \in {Cached(NoneName, "unknown", "unknown")},
          r \in {_setup_logging_from_conf(World, conf, env, project)} :
           /\ _loggers' = got.cache
           /\ adapters' = got.heap
           /\ log_root' = r.w.root
           /\ levels' = r.w.levels
           /\ created' = r.w.created
           /\ emitted' = r.w.emitted
           /\ outcome' = IF r.exc = "" THEN Returned(None) ELSE Raised(r.exc)
    /\ before' = [call |-> "_setup_logging_from_conf", product |-> project,
                  level |-> NOTSET,
                  exc |-> "", log_root |-> log_root, excepthook |-> excepthook]
    /\ UNCHANGED <<pc, frame, returned, self_extra, msg, kwargs>>
    /\ UNCHANGED <<conf, env, binary, record, excepthook>>
    /\ UNCHANGED emitVars

\* log.py:185-189 an exception reaches the hook setup installed: the
\* adapter of the product name is asked to log it, and what process makes
\* of the call goes to the adapter's logger
LoggingExcepthook(exc) ==
    /\ calls < MaxSetupCalls
    /\ calls' = calls + 1
    /\ excepthook # "sys.__excepthook__"
    /\ LET got == Cached(excepthook, "unknown", "unknown")
           adapter == got.heap[got.cache[excepthook]]
           made == process([project |-> Str(adapter.extra.project),
                            version |-> Str(adapter.extra.version)],
                           Text(<<69>>),
                           [exc_info |-> Str(exc)])
       IN  /\ _loggers' = got.cache
           /\ adapters' = got.heap
           /\ IF made.status = "returned"
              THEN /\ emitted' = Append(emitted,
                                        [logger |-> adapter.logger,
                                         levelno |-> CRITICAL,
                                         msg |-> made.value.msg,
                                         kwargs |-> made.value.kwargs])
                   /\ outcome' = Returned(None)
              ELSE /\ emitted' = emitted
                   /\ outcome' = Raised(made.exc)
    /\ before' = [call |-> "excepthook", product |-> excepthook, exc |-> exc,
                  level |-> NOTSET,
                  log_root |-> log_root, excepthook |-> excepthook]
    /\ UNCHANGED <<pc, frame, returned, self_extra, msg, kwargs>>
    /\ UNCHANGED <<conf, env, binary, record>>
    /\ UNCHANGED emitVars
    /\ UNCHANGED <<log_root, levels, created, excepthook>>

NextSetup ==
    \/ \E product_name \in ProductNames : Setup(product_name)
    \/ \E project \in Projects \ {"unknown"} : SetupLoggingFromConf(project)
    \/ \E exc \in Exceptions : LoggingExcepthook(exc)

\* the options and surroundings setup is run with: log_config_append set
\* and the file it names in each of its states,
AppendInputs ==
    {[conf |-> [DefaultConf EXCEPT !.log_config_append = <<"c">>],
      env |-> [DefaultEnv EXCEPT !.config_file = f, !.py26 = p]] :
         f \in {"ok", "missing", "malformed", "unreadable", "bad_handler"},
         p \in BOOLEAN}

\* or log_config_append unset and every combination of the other options
ConfInputs ==
    {[conf |-> [DefaultConf EXCEPT
                    !.log_file = path.log_file,
                    !.log_dir = path.log_dir,
                    !.use_stderr = use_stderr,
                    !.publish_errors = publish,
                    !.use_syslog = sys.use_syslog,
                    !.syslog_log_facility = sys.facility,
                    !.log_format = format,
                    !.debug = flags[1],
                    !.verbose = flags[2],
                    !.watch_log_file = watch],
      env |-> DefaultEnv] :
         path \in {[log_file |-> NoneText, log_dir |-> NoneText],
                   [log_file |-> <<"f">>, log_dir |-> NoneText],
                   [log_file |-> NoneText, log_dir |-> <<"/", "d">>]},
         use_stderr \in BOOLEAN, publish \in BOOLEAN,
         sys \in {[use_syslog |-> FALSE,
                   facility |-> DefaultConf.syslog_log_facility],
                  [use_syslog |-> TRUE, facility |-> <<"u", "s", "e", "r">>],
                  [use_syslog |-> TRUE,
                   facility |-> <<"f", "o", "u", "g", "e", "r", "e">>]},
         format \in {NoneText, <<"[", "]">>},
         flags \in BOOLEAN \X BOOLEAN, watch \in BOOLEAN}

InitSetupState ==
    /\ InitGetLogger
    /\ self_extra = EmptyDict
    /\ msg = None
    /\ kwargs = EmptyDict
    /\ outcome = Pending
    /\ binary = NoneText
    /\ levels = [n \in {} |-> IntLevel(NOTSET)]
    /\ \E n \in 0 .. MaxHandlers :
           /\ log_root = [FreshRoot EXCEPT !.handlers = OldHandlers(n)]
           /\ created = n
    /\ excepthook = "sys.__excepthook__"
    /\ emitted = <<>>
    /\ before = NoCall
    /\ record = NoRecord
    /\ InitNoEmit

\* log.py:77-84 isEnabledFor of the adapter of the logger called mod: the
\* logger's own level decides unless it is NOTSET, and then the root's
isEnabledFor(mod, severity) ==
    LET own == IF mod = <<>> THEN log_root.level ELSE levels[mod]
        effective == IF own.kind = "int" /\ own.n = NOTSET
                     THEN log_root.level ELSE own
    IN  LevelEnables(effective, severity)

InitSetup ==
    /\ InitSetupState
    /\ \E i \in AppendInputs \cup ConfInputs : conf = i.conf /\ env = i.env

SpecSetup == InitSetup /\ [][NextSetup]_vars

\* setup run for its default_log_levels: lists of 'name=LEVEL' pairs, on
\* Python 2.6 and on later Pythons
DefaultLogLevels ==
    LET LevelTexts == (DOMAIN LevelNames \ {<<"N", "O", "T", "S", "E", "T">>})
                      \cup {<<"7">>, <<"1", "5">>}
    IN  {<<>>}
        \cup {<<<<"a", "=">> \o l>> : l \in LevelTexts}
        \cup {<<<<"a", "=">> \o l, <<"b", "=">> \o k>> :
                 l \in LevelTexts, k \in {<<"I", "N", "F", "O">>, <<"7">>}}

InitLevels ==
    /\ InitSetupState
    /\ \E pairs \in DefaultLogLevels, flags \in BOOLEAN \X BOOLEAN :
           conf = [DefaultConf EXCEPT !.default_log_levels = pairs,
                                      !.debug = flags[1],
                                      !.verbose = flags[2]]
    /\ \E p \in BOOLEAN : env = [DefaultEnv EXCEPT !.py26 = p]

SpecLevels == InitLevels /\ [][NextSetup]_vars

(***************************************************************************)
(* ContextFormatter.format, for records that carry no exception.  Its      *)
(* code (oslo_log/formatters.py) is not part of the sources at hand: the   *)
(* model follows section 4.3 of the specification and the expectations of  *)
(* ContextFormatterTestCase.  A rendered line is the sequence of its       *)
(* pieces.                                                                 *)
(***************************************************************************)
\* the values the placeholders of a format string take for a record
RecordFields(rec) ==
    ("%(message)s" :> rec.message) @@ ("%(request_id)s" :> rec.request_id)

\* format % fields
Render(format, fields) ==
    [i \in 1 .. Len(format) |->
        IF format[i] \in DOMAIN fields THEN fields[format[i]] ELSE format[i]]

\* a variant that takes the default format string for every record
SelectFormat_default(rec, c) == c.logging_default_format_string

\* section 4.3: context mode when the record has a context, default mode
\* when it has none
SelectFormat(rec, c) ==
    IF rec.has_context THEN c.logging_context_format_string
    ELSE c.logging_default_format_string

\* section 4.3: the debug suffix, if one is configured, follows the format
\* string of a DEBUG record after a space
WithDebugSuffix(format, rec, c) ==
    IF rec.levelno = DEBUG /\ c.logging_debug_format_suffix # <<>>
    THEN format \o <<" ">> \o c.logging_debug_format_suffix
    ELSE format

ContextFormatter_format(rec, c) ==
    Render(WithDebugSuffix(SelectFormat(rec, c), rec, c), RecordFields(rec))

\* the records formatted: with the context of request "abc" or "99" or with
\* none, at four severities
Records ==
    {[levelno |-> l, has_context |-> FALSE, request_id |-> "", message |-> m] :
         l \in {DEBUG, INFO, WARNING, ERROR}, m \in {"foo", "bar", "baz"}}
    \cup {[levelno |-> l, has_context |-> TRUE, request_id |-> r,
           message |-> m] :
              l \in {DEBUG, INFO, WARNING, ERROR}, r \in {"abc", "99"},
              m \in {"foo", "bar", "baz"}}

\* the format strings of ContextFormatterTestCase.setUp, with and without
\* a debug suffix
FormatConfs ==
    {[DefaultConf EXCEPT
          !.logging_context_format_string =
              <<"HAS CONTEXT [", "%(request_id)s", "]: ", "%(message)s">>,
          !.logging_default_format_string = <<"NOCTXT: ", "%(message)s">>,
          !.logging_debug_format_suffix = suffix] :
         suffix \in {<<"--DBG">>, <<>>}}

InitFormat ==
    /\ InitGetLogger
    /\ self_extra = EmptyDict
    /\ msg = None
    /\ kwargs = EmptyDict
    /\ outcome = Pending
    /\ conf \in FormatConfs
    /\ env = DefaultEnv
    /\ binary = NoneText
    /\ log_root = FreshRoot
    /\ levels = [n \in {} |-> IntLevel(NOTSET)]
    /\ created = 0
    /\ excepthook = "sys.__excepthook__"
    /\ emitted = <<>>
    /\ before = NoCall
    /\ record \in Records
    /\ InitNoEmit

\* one call formatter.format(record)
Format ==
    /\ outcome.status = "pending"
    /\ outcome' = [status |-> "returned", exc |-> "",
                   value |-> ContextFormatter_format(record, conf)]
    /\ UNCHANGED <<self_extra, msg, kwargs>>
    /\ UNCHANGED getLoggerVars
    /\ UNCHANGED setupVars

SpecFormat == InitFormat /\ [][Format]_vars

(***************************************************************************)
(* A log call from the adapter to the handler's stream, made by threads    *)
(* that each may have a request context.  The formatter's code is not part *)
(* of the sources at hand: the fallback to the ambient context follows     *)
(* section 4.1 of the specification, its scope section 5, and the          *)
(* missing-field policy section 4.3.  A call is two steps of its thread:   *)
(* the record is made, then it is formatted and written.                   *)
(***************************************************************************)

\* a variant in which every thread reads the context of thread 1
get_current_first(st, t) == st[1]

\* section 5: the ambient context is that of the calling thread ("" if it
\* has none), as test_context_is_taken_from_tls_variable expects
get_current(st, t) == st[t]

\* section 4.1: a record without explicit context takes the ambient one
\* before it counts as having none
WithAmbientContext(rec, ambient) ==
    IF rec.has_context \/ ambient = "" THEN rec
    ELSE [rec EXCEPT !.has_context = TRUE, !.request_id = ambient]

\* the placeholders a format string can hold, and the ones a record has a
\* value for: the request id only with a context
Placeholders == {"%(message)s", "%(request_id)s", "%(missing)s"}
ResolvedFields(rec) ==
    LET present == IF rec.has_context
                   THEN {"%(message)s", "%(request_id)s"}
                   ELSE {"%(message)s"}
    IN  [k \in present |-> RecordFields(rec)[k]]

\* a variant that finds no placeholder missing
MissingKeys_none(format, rec) == {}

\* section 4.3: the placeholders of the format string the record has no
\* value for
MissingKeys(format, rec) ==
    ({format[i] : i \in 1 .. Len(format)} \cap Placeholders)
        \ DOMAIN ResolvedFields(rec)

\* the application gives thread t a request context; the request id is the
\* thread's own
RequestContext(t) ==
    /\ inflight[t] = NoRecord
    /\ store[t] = ""
    /\ store' = [store EXCEPT ![t] = ToString(t)]
    /\ UNCHANGED <<inflight, stream, stderr>>
    /\ UNCHANGED <<conf, env, binary, log_root, levels, created, excepthook,
                   emitted, before, record>>
    /\ UNCHANGED getLoggerVars
    /\ UNCHANGED processVars

\* thread t calls adapter.info(message) without context keyword: the record
\* is made
LogCall(t, message) ==
    /\ inflight[t] = NoRecord
    /\ calls < MaxCalls
    /\ calls' = calls + 1
    /\ inflight' = [inflight EXCEPT ![t] = [NoRecord EXCEPT
                                               !.levelno = INFO,
                                               !.message = message]]
    /\ outcome' = Pending
    /\ UNCHANGED <<store, stream, stderr>>
    /\ UNCHANGED <<conf, env, binary, log_root, levels, created, excepthook,
                   emitted, before, record>>
    /\ UNCHANGED <<_loggers, adapters, pc, frame, returned>>
    /\ UNCHANGED <<self_extra, msg, kwargs>>

\* section 4.3: the handler formats the record of thread t and writes the
\* line; a placeholder without value stays in the line as it is, and the
\* failure is reported on sys.stderr
Emit(t) ==
    /\ inflight[t] # NoRecord
    /\ LET rec == WithAmbientContext(inflight[t], get_current(store, t))
           format == WithDebugSuffix(SelectFormat(rec, conf), rec, conf)
           missing == MissingKeys(format, rec)
       IN  /\ stream' = Append(stream,
                               [thread |-> t,
                                line |-> Render(format, ResolvedFields(rec))])
           /\ stderr' = IF missing = {} THEN stderr
                        ELSE Append(stderr, [thread |-> t, keys |-> missing])
    /\ inflight' = [inflight EXCEPT ![t] = NoRecord]
    /\ outcome' = Returned(None)
    /\ UNCHANGED store
    /\ UNCHANGED <<conf, env, binary, log_root, levels, created, excepthook,
                   emitted, before, record>>
    /\ UNCHANGED getLoggerVars
    /\ UNCHANGED <<self_extra, msg, kwargs>>

\* the format strings of ContextFormatterTestCase and, with a placeholder no
\* record has a value for, of FancyRecordTestCase
InitEmit ==
    /\ InitGetLogger
    /\ InitNoProcess
    /\ env = DefaultEnv
    /\ binary = NoneText
    /\ log_root = FreshRoot
    /\ levels = [n \in {} |-> IntLevel(NOTSET)]
    /\ created = 0
    /\ excepthook = "sys.__excepthook__"
    /\ emitted = <<>>
    /\ before = NoCall
    /\ record = NoRecord
    /\ InitNoEmit
    /\ \E context \in {<<"HAS CONTEXT [", "%(request_id)s", "]: ",
                         "%(message)s">>,
                       <<"%(missing)s", " [", "%(request_id)s", "]: ",
                         "%(message)s">>},
          default \in {<<"NOCTXT: ", "%(message)s">>,
                       <<"%(missing)s", ": ", "%(message)s">>,
                       <<"[", "%(request_id)s", "]: ", "%(message)s">>} :
           conf = [DefaultConf EXCEPT
                       !.logging_context_format_string = context,
                       !.logging_default_format_string = default,
                       !.logging_debug_format_suffix = <<>>]

NextEmit ==
    \E t \in Threads :
        \/ RequestContext(t)
        \/ \E message \in {"foo", "bar"} : LogCall(t, message)
        \/ Emit(t)

SpecEmit == InitEmit /\ [][NextEmit]_vars

(***************************************************************************)
(* Claims about getLogger.                                                 *)
(***************************************************************************)

\* Every finished call for one name returned one and the same adapter.
SameAdapterPerName ==
    \A r1, r2 \in returned : r1.name = r2.name => r1.adapter = r2.adapter

\* A step never removes or replaces an entry the cache holds.
EntryKept ==
    \A n \in DOMAIN _loggers :
        n \in DOMAIN _loggers' /\ _loggers'[n] = _loggers[n]

\* C1: with getLogger calls made one at a time, all calls with the same name
\* (the name None included) return the very same adapter object, and an
\* entry of the cache, once made, is never replaced.
C1_IdempotentPerName == []SameAdapterPerName /\ [][EntryKept]_vars

\* C1 witness: two finished calls for the name None, the first of which
\* created the adapter and the second of which found it in the cache.
C1_Witness ==
    \E r1, r2 \in returned :
        /\ r1.name = NoneName /\ r2.name = NoneName
        /\ r1.miss /\ ~r2.miss
        /\ r1.adapter = r2.adapter

\* C2: when several threads call getLogger concurrently for a name that is
\* not yet in the cache (each of them saw the name missing), no two of those
\* calls return distinct adapter objects.
C2_NoDistinctAdaptersOnFirstUse ==
    \A r1, r2 \in returned :
        (r1.name = r2.name /\ r1.miss /\ r2.miss) => r1.adapter = r2.adapter

\* C10: getLogger normalizes the name at creation: the adapter returned for
\* 'oslo_subname' wraps the logger named 'oslo.subname', the node
\* getLogger('oslo.subname') uses, and the dotted spelling is kept.
C10_NameNormalized ==
    \A r \in returned :
        r.name \in {"oslo_subname", "oslo.subname"}
            => adapters[r.adapter].logger = "oslo.subname"

(***************************************************************************)
(* Claims about process.  They read the arguments of the call (self_extra, *)
(* msg, kwargs) and its outcome.                                           *)
(***************************************************************************)

\* the mapping given as extra=, empty when none was given
ExtraMapping ==
    IF "extra" \in DOMAIN kwargs /\ kwargs["extra"].kind = "dict"
    THEN kwargs["extra"].m
    ELSE EmptyDict

\* the keywords of the call other than extra and exc_info
BareKeywords == DOMAIN kwargs \ {"extra", "exc_info"}

\* the keys the three sources contribute
ContributedKeys ==
    DOMAIN self_extra \cup DOMAIN ExtraMapping \cup BareKeywords

\* the extras of a call that returned
ResultExtra == outcome.value.kwargs["extra"].m

\* the elements of a sequence
Elements(q) == {q[i] : i \in 1 .. Len(q)}

\* C3: extra_keys is the ascending sorted list of exactly the keys the
\* constructor defaults, the extra= mapping and the keywords other than
\* exc_info contribute, each listed once.
C3_ExtraKeysSorted ==
    outcome.status = "returned" =>
        LET keys == ResultExtra["extra_keys"]
        IN /\ keys.kind = "list"
           /\ Elements(keys.l) = ContributedKeys
           /\ \A i, j \in 1 .. Len(keys.l) :
                  i < j => KeyLess(keys.l[i], keys.l[j])

\* C3 witness: a call that returned with each of the three sources
\* contributing a key of its own.
C3_Witness ==
    /\ outcome.status = "returned"
    /\ "project" \in DOMAIN self_extra
    /\ "foo" \in DOMAIN ExtraMapping
    /\ "resource" \in BareKeywords
    /\ "exc_info" \in DOMAIN kwargs
    /\ ResultExtra["extra_keys"].l = <<"foo", "project", "resource">>

\* how many of the three sources supply key k
Sources(k) ==
    Cardinality({i \in 1 .. 3 :
                    \/ i = 1 /\ k \in DOMAIN self_extra
                    \/ i = 2 /\ k \in DOMAIN ExtraMapping
                    \/ i = 3 /\ k \in DOMAIN kwargs \ {"extra"}})

\* the label process makes of a resource mapping r it resolves by name, and
\* by type and id
NameLabel(r) == Str("[" \o r["name"].s \o "] ")
TypeIdLabel(r) == Str("[" \o r["type"].s \o "-" \o r["id"].s \o "] ")

\* value v, or the label of v when v is a resource mapping
IsOrLabels(x, v) ==
    \/ x = v
    \/ /\ v.kind = "dict"
       /\ "name" \in DOMAIN v.m
       /\ x = NameLabel(v.m)
    \/ /\ v.kind = "dict"
       /\ {"type", "id"} \subseteq DOMAIN v.m
       /\ x = TypeIdLabel(v.m)

\* C4 as claimed: a field name that more than one of the constructor
\* defaults, the extra= mapping and the bare keywords supply has in the
\* resulting extras the bare keyword's value if present, otherwise the extra=
\* mapping's, otherwise the constructor default's (for resource: that value
\* or the label process makes of it).
C4_PrecedenceAllNames ==
    outcome.status = "returned" =>
        \A k \in ContributedKeys \cup (DOMAIN kwargs \ {"extra"}) :
            Sources(k) > 1 =>
                /\ k \in DOMAIN ResultExtra
                /\ LET winner ==
                           IF k \in DOMAIN kwargs THEN kwargs[k]
                           ELSE IF k \in DOMAIN ExtraMapping
                           THEN ExtraMapping[k]
                           ELSE self_extra[k]
                   IN IF k = "resource"
                      THEN IsOrLabels(ResultExtra[k], winner)
                      ELSE ResultExtra[k] = winner

\* C4 amended: the same for every field name other than exc_info and
\* extra_keys, the winning value of resource being the one process then
\* resolves into its label; a bare exc_info keyword never enters the extras
\* (the extra= mapping's exc_info, or else the default's, stays) and
\* extra_keys is always the list of keys.
C4_Precedence ==
    outcome.status = "returned" =>
        /\ \A k \in ContributedKeys \ {"exc_info", "extra_keys"} :
               Sources(k) > 1 =>
                   /\ k \in DOMAIN ResultExtra
                   /\ LET winner ==
                              IF k \in BareKeywords THEN kwargs[k]
                              ELSE IF k \in DOMAIN ExtraMapping
                              THEN ExtraMapping[k]
                              ELSE self_extra[k]
                      IN IF k = "resource"
                         THEN IsOrLabels(ResultExtra[k], winner)
                         ELSE ResultExtra[k] = winner
        /\ "exc_info" \in ContributedKeys =>
               ResultExtra["exc_info"] =
                   IF "exc_info" \in DOMAIN ExtraMapping
                   THEN ExtraMapping["exc_info"]
                   ELSE self_extra["exc_info"]
        /\ ResultExtra["extra_keys"].kind = "list"

\* C4 witness: foo comes from all three sources and a call returned.
C4_Witness ==
    /\ outcome.status = "returned"
    /\ "foo" \in DOMAIN self_extra
    /\ "foo" \in DOMAIN ExtraMapping
    /\ "foo" \in BareKeywords
    /\ ResultExtra["foo"] = kwargs["foo"]

\* nothing but the keywords can make the call raise: the message coerces
MessageCoerces == _ensure_unicode(msg).status = "returned"

\* C5: a log call never raises because of its keyword arguments: whatever
\* the keywords (extra=None, an extra that is no mapping, extra keys that
\* cannot be ordered, a resource that is no mapping), process returns a
\* message and kwargs.
C5_NeverRaises ==
    (outcome.status # "pending" /\ MessageCoerces) =>
        /\ outcome.status = "returned"
        /\ outcome.value.msg.kind = "text"
        /\ "extra" \in DOMAIN outcome.value.kwargs

\* the resource value the call supplies: the bare keyword's, else the one
\* of the extra= mapping, else the default's
HasResource == "resource" \in ContributedKeys
SuppliedResource ==
    IF "resource" \in BareKeywords THEN kwargs["resource"]
    ELSE IF "resource" \in DOMAIN ExtraMapping THEN ExtraMapping["resource"]
    ELSE self_extra["resource"]

\* a resource mapping has a non-empty entry for field f
NonEmpty(r, f) == f \in DOMAIN r.m /\ Truthy(r.m[f])

\* C6: a resource mapping with a non-empty name becomes '[' + name + '] ',
\* also when type and id are present; otherwise one with a non-empty type
\* and a non-empty id becomes '[' + type + '-' + id + '] '.
C6_ResourceResolved ==
    (outcome.status = "returned" /\ HasResource
            /\ SuppliedResource.kind = "dict") =>
        LET r == SuppliedResource
        IN /\ NonEmpty(r, "name") => ResultExtra["resource"] = NameLabel(r.m)
           /\ (~NonEmpty(r, "name") /\ NonEmpty(r, "type") /\ NonEmpty(r, "id"))
                  => ResultExtra["resource"] = TypeIdLabel(r.m)

\* C6 witness: a resource with name, type and id, all non-empty, was
\* resolved.
C6_Witness ==
    /\ outcome.status = "returned"
    /\ HasResource
    /\ SuppliedResource.kind = "dict"
    /\ NonEmpty(SuppliedResource, "name")
    /\ NonEmpty(SuppliedResource, "type")
    /\ NonEmpty(SuppliedResource, "id")
    /\ ResultExtra["resource"] = Str("[n] ")

\* the supplied resource value has a name, or has both type and id
MatchesShape(r) ==
    /\ r.kind = "dict"
    /\ \/ NonEmpty(r, "name")
       \/ NonEmpty(r, "type") /\ NonEmpty(r, "id")

\* the call has no other reason to raise than its resource: the message
\* coerces, extra is absent or a mapping, and the keys can be ordered
OnlyResourceAtStake ==
    /\ MessageCoerces
    /\ ("extra" \in DOMAIN kwargs => kwargs["extra"].kind = "dict")
    /\ Orderable(ContributedKeys)

\* C7: a resource value that matches neither shape, whatever it is, stays in
\* the extras as the caller passed it, and process raises nothing.
C7_ResourcePassedThrough ==
    (outcome.status # "pending" /\ OnlyResourceAtStake /\ HasResource
            /\ ~MatchesShape(SuppliedResource)) =>
        /\ outcome.status = "returned"
        /\ ResultExtra["resource"] = SuppliedResource

\* what C8 says of the returned kwargs and of the other keywords
KwargsAfter ==
    /\ DOMAIN outcome.value.kwargs =
           {"extra"} \cup (DOMAIN kwargs \cap {"exc_info"})
    /\ "exc_info" \in DOMAIN kwargs =>
           outcome.value.kwargs["exc_info"] = kwargs["exc_info"]
    /\ BareKeywords \subseteq DOMAIN ResultExtra

\* C8 as claimed: the returned kwargs hold exactly extra, plus exc_info with
\* its value iff the caller passed it; exc_info never appears in the extras
\* or in extra_keys; every other keyword has moved into the extras.
C8_ExcInfoNeverInExtras ==
    outcome.status = "returned" =>
        /\ KwargsAfter
        /\ "exc_info" \notin DOMAIN ResultExtra
        /\ "exc_info" \notin Elements(ResultExtra["extra_keys"].l)

\* C8 amended: the returned kwargs hold exactly extra, plus exc_info with
\* its value iff the caller passed it; every keyword other than extra and
\* exc_info has moved into the extras; the exc_info keyword never moves into
\* them: exc_info is in the extras and in extra_keys exactly when the
\* constructor defaults or the extra= mapping hold a key of that name, and
\* then with their value.
C8_ExcInfoPassedThrough ==
    outcome.status = "returned" =>
        /\ KwargsAfter
        /\ "exc_info" \in DOMAIN ResultExtra
               <=> "exc_info" \in DOMAIN self_extra \cup DOMAIN ExtraMapping
        /\ "exc_info" \in Elements(ResultExtra["extra_keys"].l)
               <=> "exc_info" \in DOMAIN self_extra \cup DOMAIN ExtraMapping
        /\ "exc_info" \in DOMAIN ResultExtra =>
               ResultExtra["exc_info"] =
                   IF "exc_info" \in DOMAIN ExtraMapping
                   THEN ExtraMapping["exc_info"]
                   ELSE self_extra["exc_info"]

\* C8 witness: a call with exc_info and two more keywords returned.
C8_Witness ==
    /\ outcome.status = "returned"
    /\ {"exc_info", "foo", "resource"} \subseteq DOMAIN kwargs
    /\ DOMAIN outcome.value.kwargs = {"extra", "exc_info"}
    /\ outcome.value.kwargs["exc_info"] = Str("the info")

(***************************************************************************)
(* Claims about _ensure_unicode.                                           *)
(***************************************************************************)

\* C9: _ensure_unicode never raises and always returns a text string: a text
\* string is returned unchanged, a byte string (valid UTF-8 or not) is
\* decoded to text, any other object becomes its text representation.
C9_EnsureUnicodeTotal ==
    outcome.status # "pending" =>
        /\ outcome.status = "returned"
        /\ outcome.value.kind = "text"
        /\ (msg.kind = "text" => outcome.value = msg)
        /\ (msg.kind = "object" => outcome.value.data = msg.data)

(***************************************************************************)
(* Claims about _get_log_file_path.                                        *)
(***************************************************************************)
\* x placed in directory d
Under(d, x) == IF EndsWith(d, <<"/">>) THEN d \o x ELSE d \o <<"/">> \o x

BinaryUsed == IF TextTruthy(binary) THEN binary ELSE env.binary_name

\* C17: _get_log_file_path returns log_file itself when only log_file is
\* set; when both are set, log_file placed under log_dir unless log_file is
\* absolute, and then log_file itself; "<log_dir>/<binary>.log" when only
\* log_dir is set; and None exactly when neither is set.
C17_LogFilePath ==
    outcome.status # "pending" =>
        LET lf == conf.log_file
            ld == conf.log_dir
        IN  /\ outcome.status = "returned"
            /\ (TextTruthy(lf) /\ ~TextTruthy(ld)) => outcome.value = lf
            /\ (TextTruthy(lf) /\ TextTruthy(ld)) =>
                   outcome.value = IF StartsWith(lf, <<"/">>) THEN lf
                                   ELSE Under(ld, lf)
            /\ (~TextTruthy(lf) /\ TextTruthy(ld)) =>
                   outcome.value =
                       Under(ld, BinaryUsed) \o <<".", "l", "o", "g">>
            /\ outcome.value = NoneText
                   <=> (~TextTruthy(lf) /\ ~TextTruthy(ld))

\* an absolute log_file and a log_dir are both set and the call has returned
C17_Witness ==
    /\ outcome.status = "returned"
    /\ conf.log_file = <<"/", "f">>
    /\ conf.log_dir = <<"/", "d">>
    /\ outcome.value = <<"/", "f">>

(***************************************************************************)
(* Claims about _find_facility.                                            *)
(***************************************************************************)
\* t with every ASCII letter in upper case
Fold(t) ==
    [i \in 1 .. Len(t) |->
        IF \E j \in 1 .. Len(LowerCase) : LowerCase[j] = t[i]
        THEN UpperCase[CHOOSE j \in 1 .. Len(LowerCase) : LowerCase[j] = t[i]]
        ELSE t[i]]

\* the name without its "LOG_" prefix, if it has one, in upper case
BareFacility(t) ==
    IF StartsWith(Fold(t), LOG(<<>>)) THEN SubSeq(Fold(t), 5, Len(t))
    ELSE Fold(t)

\* the attribute of the syslog module that the name denotes
FacilityAttribute(t) == LOG(BareFacility(t))

ConfSetupReturned ==
    /\ outcome.status = "returned"
    /\ \/ before.call = "_setup_logging_from_conf"
       \/ before.call = "setup" /\ ~TextTruthy(conf.log_config_append)

HandlerIds(hs) == {hs[i].id : i \in 1 .. Len(hs)}

\* the handlers of the root logger that were not attached before the call
NewHandlers ==
    SelectSeq(log_root.handlers,
              LAMBDA h : h.id \notin HandlerIds(before.log_root.handlers))

\* C11: after _setup_logging_from_conf returns, no handler that was
\* attached to the root logger before the call is still attached, however
\* many there were.
C11_OldHandlersRemoved ==
    ConfSetupReturned =>
        HandlerIds(log_root.handlers)
            \cap HandlerIds(before.log_root.handlers) = {}

\* C12: after _setup_logging_from_conf returns, every handler of the root
\* logger has a formatter: a ContextFormatter when log_format is unset, a
\* logging.Formatter made from log_format when it is set.
C12_EveryHandlerFormatted ==
    ConfSetupReturned =>
        \A i \in 1 .. Len(log_root.handlers) :
            LET f == log_root.handlers[i].formatter
            IN  IF TextTruthy(conf.log_format)
                THEN f.class = "Formatter" /\ f.fmt = conf.log_format
                ELSE f.class = "ContextFormatter"

\* setup has returned with log_format set and two handlers on the root
\* logger, one of them attached before the call
C12_Witness ==
    /\ ConfSetupReturned
    /\ TextTruthy(conf.log_format)
    /\ Len(log_root.handlers) >= 2
    /\ Len(NewHandlers) < Len(log_root.handlers)

\* C13: after setup from the options the root logger's level is DEBUG when
\* debug is true, whatever verbose is; otherwise INFO when verbose is true;
\* otherwise WARNING.
C13_RootLevel ==
    ConfSetupReturned =>
        log_root.level =
            IntLevel(CASE conf.debug -> DEBUG
                       [] ~conf.debug /\ conf.verbose -> INFO
                       [] OTHER -> WARNING)

\* setup has returned with debug and verbose both set
C13_Witness ==
    /\ ConfSetupReturned
    /\ conf.debug
    /\ conf.verbose
    /\ log_root.level = IntLevel(DEBUG)

\* the last call ran _setup_logging_from_conf and it is over
ConfSetupOver ==
    /\ outcome.status # "pending"
    /\ \/ before.call = "_setup_logging_from_conf"
       \/ before.call = "setup" /\ ~TextTruthy(conf.log_config_append)

Digits == <<"0", "1", "2", "3", "4", "5", "6", "7", "8", "9">>
IsInteger(t) ==
    t # <<>> /\ \A i \in 1 .. Len(t) : \E d \in 1 .. 10 : Digits[d] = t[i]

\* the number a text of digits denotes
RECURSIVE DecimalValue(_)
DecimalValue(t) ==
    IF t = <<>> THEN 0
    ELSE 10 * DecimalValue(SubSeq(t, 1, Len(t) - 1))
         + (CHOOSE d \in 1 .. 10 : Digits[d] = t[Len(t)]) - 1

\* the level a LEVEL text stands for
LevelOf(t) == IF t \in DOMAIN LevelNames THEN LevelNames[t] ELSE DecimalValue(t)

\* C14: when every LEVEL of default_log_levels is a known severity name or
\* a bare integer, setup returns, and for every entry 'name=LEVEL' the
\* adapter of the logger called name is enabled for exactly the severities
\* at or above LEVEL.
C14_DefaultLogLevels ==
    (/\ ConfSetupOver
     /\ \A i \in 1 .. Len(conf.default_log_levels) :
            LET p == partition(conf.default_log_levels[i])
            IN  p.level_name \in DOMAIN LevelNames \/ IsInteger(p.level_name))
    => /\ outcome.status = "returned"
       /\ \A i \in 1 .. Len(conf.default_log_levels) :
              LET p == partition(conf.default_log_levels[i])
              IN  /\ p.mod \in DOMAIN levels
                  /\ \A severity \in {5, 7, 10, 15, 20, 30, 40, 50} :
                         isEnabledFor(p.mod, severity)
                             <=> severity >= LevelOf(p.level_name)

\* C15: when log_config_append is set and the file cannot be loaded,
\* whatever the reason, setup raises LogConfigError and nothing else.
C15_OnlyLogConfigError ==
    (/\ before.call = "setup"
     /\ outcome.status # "pending"
     /\ TextTruthy(conf.log_config_append)
     /\ env.config_file # "ok")
    => outcome.status = "raised" /\ outcome.exc = "LogConfigError"

\* C18: with a log path configured and stderr, publish_errors and syslog
\* off, setup attaches exactly one handler to the root logger: a
\* FastWatchedFileHandler when watch_log_file is true, a plain
\* WatchedFileHandler when it is false.
C18_WatchLogFile ==
    (/\ ConfSetupReturned
     /\ TextTruthy(_get_log_file_path(conf, NoneText, env))
     /\ ~conf.use_stderr
     /\ ~conf.publish_errors
     /\ ~conf.use_syslog)
    => /\ Len(NewHandlers) = 1
       /\ NewHandlers[1].class = IF conf.watch_log_file
                                 THEN "FastWatchedFileHandler"
                                 ELSE "WatchedFileHandler"

\* a call of setup that returns leaves the hook of its product name
HookInstalled ==
    (before.call = "setup" /\ outcome.status = "returned")
        => excepthook = before.product

\* a step that is a call of the hook hands one CRITICAL record to the
\* logger of the product name, exc_info being the exception
HookLogsOnce ==
    (before'.call = "excepthook" /\ calls' = calls + 1)
        => \E rec \in {emitted'[Len(emitted')]} :
               /\ emitted' = Append(emitted, rec)
               /\ rec.logger = logging_getLogger(excepthook)
               /\ rec.levelno = CRITICAL
               /\ "exc_info" \in DOMAIN rec.kwargs
               /\ rec.kwargs["exc_info"] = Str(before'.exc)

\* C19: after every call of setup that returns, with log_config_append set
\* or not, sys.excepthook is the logging hook of the product name given,
\* and every call of that hook logs exactly one CRITICAL record through the
\* logger of that product name with the exception as exc_info.
C19_ExcepthookInstalled == []HookInstalled /\ [][HookLogsOnce]_vars

\* the hook installed for "glance" has been called and has logged
C19_Witness ==
    /\ before.call = "excepthook"
    /\ excepthook = "glance"
    /\ emitted # <<>>
    /\ emitted[Len(emitted)].logger = "glance"
    /\ emitted[Len(emitted)].levelno = CRITICAL

(***************************************************************************)
(* Claims about the context formatter.                                     *)
(***************************************************************************)
\* the main line of the record under the format strings of
\* ContextFormatterTestCase
ContextLine == <<"HAS CONTEXT [", record.request_id, "]: ", record.message>>
DefaultLine == <<"NOCTXT: ", record.message>>

\* C20: a record without exception is rendered with the context format
\* string exactly when it has a context and with the default one otherwise,
\* and the debug suffix follows the main line exactly when the severity is
\* DEBUG.
C20_TemplateSelection ==
    outcome.status # "pending" =>
        LET main == IF record.has_context THEN ContextLine ELSE DefaultLine
            suffix == IF conf.logging_debug_format_suffix = <<>> THEN <<>>
                      ELSE <<" ">> \o conf.logging_debug_format_suffix
        IN  /\ outcome.status = "returned"
            /\ outcome.value = IF record.levelno = DEBUG
                               THEN main \o suffix
                               ELSE main

\* scenario C with a context: a DEBUG record of request "abc" has been
\* rendered with the context format string and the suffix
C20_Witness ==
    /\ outcome.status = "returned"
    /\ record.has_context
    /\ record.levelno = DEBUG
    /\ outcome.value = <<"HAS CONTEXT [", "abc", "]: ", "baz", " ", "--DBG">>

(***************************************************************************)
(* Claims about getLogger under concurrent calls.                          *)
(***************************************************************************)

\* C26: any two adapters ever constructed by getLogger for the same name,
\* the two built by racing first-use calls included, have identical bound
\* default fields, whatever project and version the callers passed.
C26_IdenticalDefaults ==
    \A i, j \in DOMAIN adapters :
        adapters[i].logger = adapters[j].logger
            => adapters[i].extra = adapters[j].extra

\* No call is in flight.
AllReturned == \A t \in Threads : pc[t] = "idle"

\* The name is in the cache and no call in flight is about to store an
\* adapter for it.
Settled(name) ==
    /\ name \in DOMAIN _loggers
    /\ \A t \in Threads :
           frame[t].name = name => pc[t] \notin {"construct", "store"}

\* An entry of the cache changes only in the store of a call for its name.
OnlyOwnEntry ==
    \A name \in DOMAIN _loggers :
        (name \notin DOMAIN _loggers' \/ _loggers'[name] # _loggers[name])
            => \E t \in Threads : pc[t] = "store" /\ frame[t].name = name

\* A settled name stays settled, with the same adapter.
SettledKept ==
    \A name \in Names :
        Settled(name) => Settled(name)' /\ _loggers'[name] = _loggers[name]

\* C27: under any interleaving of concurrent getLogger calls the cache is
\* never corrupted: once all calls in flight have returned, every requested
\* name is settled on one adapter of the heap, every later call finds and
\* returns that adapter, and a call for one name never changes the entry of
\* another name.
C27_CacheNeverCorrupted ==
    /\ [](\A name \in DOMAIN _loggers : _loggers[name] \in DOMAIN adapters)
    /\ [](AllReturned => \A r \in returned : Settled(r.name))
    /\ [](\A t \in Threads :
              (pc[t] = "return" /\ ~frame[t].miss)
                  => frame[t].name \in DOMAIN _loggers)
    /\ [][SettledKept /\ OnlyOwnEntry]_vars

\* C27 witness: two racing first-use calls for one name have both stored,
\* all calls have returned, and a later call found the adapter the cache was
\* left with.
C27_Witness ==
    /\ AllReturned
    /\ \E r1, r2, r3 \in returned :
           /\ r1.name = r2.name /\ r2.name = r3.name
           /\ r1.miss /\ r2.miss /\ r1.adapter # r2.adapter
           /\ ~r3.miss /\ r3.adapter = _loggers[r3.name]

\* A call that finds its name in the cache goes on to return, and neither
\* step of it changes the cache or an adapter.
FoundLeavesCache ==
    \A t \in Threads :
        /\ (pc[t] = "test" /\ frame[t].name \in DOMAIN _loggers
                /\ pc'[t] # pc[t])
               => pc'[t] = "return" /\ _loggers' = _loggers
                      /\ adapters' = adapters
        /\ (pc[t] = "return" /\ ~frame[t].miss /\ pc'[t] # pc[t])
               => /\ _loggers' = _loggers /\ adapters' = adapters
                  /\ [name |-> frame[t].name,
                      adapter |-> _loggers[frame[t].name],
                      miss |-> FALSE] \in returned'

\* An adapter, once built, keeps its logger and its bound fields.
AdaptersKept ==
    \A i \in DOMAIN adapters :
        i \in DOMAIN adapters' /\ adapters'[i] = adapters[i]

\* C29: the project and version bound to a cached adapter are those of the
\* getLogger call that created it: a later call for the same name with
\* another project or version returns the adapter with the original values
\* and changes nothing in the cache.
C29_OriginalProjectKept ==
    /\ [](\A t \in Threads :
              pc[t] = "store"
                  => adapters[frame[t].new].extra =
                         [project |-> frame[t].project,
                          version |-> frame[t].version])
    /\ [][FoundLeavesCache /\ AdaptersKept]_vars

\* C29 witness: a call that found its name in the cache is about to return
\* an adapter bound to another project than the one the call passed.
C29_Witness ==
    \E t \in Threads :
        /\ pc[t] = "return" /\ ~frame[t].miss
        /\ adapters[_loggers[frame[t].name]].extra.project # frame[t].project

(***************************************************************************)
(* Claims about the handlers setup leaves on the root logger.              *)
(***************************************************************************)

\* the sink a handler writes to, by its class
SinkOf(h) ==
    CASE h.class = "WatchedFileHandler" -> "file"
      [] h.class = "ColorHandler" -> "stderr"
      [] h.class = "StreamHandler" -> "stdout"
      [] h.class = "OSSysLogHandler" -> "syslog"
      [] OTHER -> "publish"

Sinks(hs) == [i \in 1 .. Len(hs) |-> SinkOf(hs[i])]

\* the sinks the options ask for, in the order of the claim
ConfiguredSinks ==
    LET logpath == TextTruthy(_get_log_file_path(conf, NoneText, env))
        If(b, sink) == IF b THEN <<sink>> ELSE <<>>
    IN  If(logpath, "file")
        \o If(conf.use_stderr, "stderr")
        \o If(~conf.use_stderr /\ ~logpath, "stdout")
        \o If(conf.publish_errors, "publish")
        \o If(conf.use_syslog, "syslog")

\* C23: after _setup_logging_from_conf returns, the root logger's handlers
\* are exactly, and in this order: a file handler iff a log path is
\* configured; the stderr color handler iff use_stderr; a stdout stream
\* handler iff neither use_stderr nor a log path is configured; the
\* publish-errors handler (created at level ERROR) iff publish_errors; the
\* syslog handler iff use_syslog.  Hence at least one handler is attached.
C23_ExactHandlers ==
    ConfSetupReturned =>
        /\ Sinks(log_root.handlers) = ConfiguredSinks
        /\ \A i \in 1 .. Len(log_root.handlers) :
               SinkOf(log_root.handlers[i]) = "publish"
                   => log_root.handlers[i].level = ERROR
        /\ Len(log_root.handlers) >= 1

\* C28: setup from the options is idempotent on the root logger's handlers:
\* after a further call with the same options the root logger has the same
\* number and kinds of handlers as after the call before it, so handlers
\* never accumulate.
C28_SetupIdempotent ==
    (ConfSetupReturned /\ calls >= 2)
        => Sinks(log_root.handlers) = Sinks(before.log_root.handlers)

\* C30: if setup raises LogConfigError (from the config file) or TypeError
\* (from an invalid syslog facility), the state is as before the call: the
\* root logger's handler list, the handlers' formatters and the root level
\* are unchanged, and sys.excepthook is not replaced.
C30_NothingChangedOnRaise ==
    (before.call = "setup" /\ outcome.status = "raised"
         /\ outcome.exc \in {"LogConfigError", "TypeError"})
        => log_root = before.log_root /\ excepthook = before.excepthook

(***************************************************************************)
(* Claims about a log call on the adapter.                                 *)
(***************************************************************************)

\* what process makes of the call's arguments
Processed == process(self_extra, msg, kwargs)

\* the last call made on the underlying logger
LastSent == emitted[Len(emitted)]

\* C24: every log call on the adapter, log(level, ...) or the method of a
\* severity, makes exactly one call on the underlying logger, with the same
\* severity, the same message (as text), extra equal to the mapping built
\* by process, and exc_info unchanged.
C24_OneCallForwarded ==
    /\ Len(emitted) = calls
    /\ before.call = "log" =>
           /\ Processed.status = "returned"
           /\ LastSent.levelno = before.level
           /\ LastSent.msg = _ensure_unicode(msg).value
           /\ LastSent.kwargs["extra"] = Processed.value.kwargs["extra"]
           /\ "exc_info" \in DOMAIN kwargs
                  => /\ "exc_info" \in DOMAIN LastSent.kwargs
                     /\ LastSent.kwargs["exc_info"] = kwargs["exc_info"]

\* a log call leaves the adapter's bound defaults and the caller's extra
\* mapping as they were
CallerObjectsKept ==
    before'.call = "log" =>
        /\ self_extra' = self_extra
        /\ DOMAIN kwargs' = DOMAIN kwargs
        /\ "extra" \in DOMAIN kwargs => kwargs'["extra"] = kwargs["extra"]

\* C25: process never modifies the adapter's bound default fields nor the
\* mapping the caller passed as extra=: after any sequence of log calls the
\* bound defaults are the ones given at construction, and the caller's
\* mapping has the keys and values it had (no extra_keys added, resource not
\* rewritten).
C25_ProcessFrame == [][CallerObjectsKept]_vars

\* C25 witness: after two log calls with an extra mapping that holds a
\* resource mapping, the logger was given extra_keys and a resource label,
\* and the caller's mapping still holds the resource mapping and no
\* extra_keys.
C25_Witness ==
    /\ calls >= 2 /\ Len(emitted) >= 2
    /\ self_extra # EmptyDict
    /\ "extra" \in DOMAIN kwargs /\ "resource" \notin DOMAIN kwargs
    /\ kwargs["extra"].kind = "dict"
    /\ "resource" \in DOMAIN kwargs["extra"].m
    /\ kwargs["extra"].m["resource"].kind = "dict"
    /\ "extra_keys" \notin DOMAIN kwargs["extra"].m
    /\ "extra_keys" \notin DOMAIN self_extra
    /\ "extra_keys" \in DOMAIN LastSent.kwargs["extra"].m
    /\ LastSent.kwargs["extra"].m["resource"].kind = "str"

(***************************************************************************)
(* Claims about the line a log call writes.                                *)
(***************************************************************************)

\* thread t leaves its log call in this step
Emitted(t) == inflight[t] # NoRecord /\ inflight'[t] = NoRecord

\* the line and the diagnostic this step wrote last
NewLine == stream'[Len(stream')]
NewDiagnostic == stderr'[Len(stderr')]

\* the format string selected for the call of thread t: the context one when
\* the thread has a request context
SelectedFor(t) ==
    IF store[t] # "" THEN conf.logging_context_format_string
    ELSE conf.logging_default_format_string

\* the selected format string refers to a field the record has no value for
RefersToAbsent(t, key) ==
    /\ key \in Elements(SelectedFor(t))
    /\ \/ key = "%(missing)s"
       \/ key = "%(request_id)s" /\ store[t] = ""

\* a log call whose format string refers to an absent field returns, writes
\* one line that holds the message to the stream, and one diagnostic naming
\* the key to sys.stderr
MissingFieldReported ==
    \A t \in Threads, key \in Placeholders :
        (Emitted(t) /\ RefersToAbsent(t, key)) =>
            /\ outcome'.status = "returned"
            /\ Len(stream') = Len(stream) + 1
            /\ stream' = Append(stream, NewLine)
            /\ NewLine.thread = t
            /\ inflight[t].message \in Elements(NewLine.line)
            /\ Len(stderr') = Len(stderr) + 1
            /\ stderr' = Append(stderr, NewDiagnostic)
            /\ NewDiagnostic.thread = t
            /\ key \in NewDiagnostic.keys
            /\ \A i \in 1 .. Len(stream') : stream'[i] # NewDiagnostic

\* C21: when the selected template references a field that is absent from
\* the resolved mapping, the log call does not raise into the caller: a
\* diagnostic naming the missing key is written to stderr, not to the
\* stream being formatted, and a line is still produced.
C21_MissingFieldRobust == [][MissingFieldReported]_vars

\* C21 witness: with the default format string '%(missing)s: %(message)s' a
\* call without any context has written its line, the placeholder left in
\* it, and the diagnostic is on sys.stderr.
C21_Witness ==
    /\ Len(stream) >= 1 /\ Len(stderr) >= 1
    /\ stream[Len(stream)].line = <<"%(missing)s", ": ", "foo">>
    /\ stderr[Len(stderr)].keys = {"%(missing)s"}
    /\ outcome.status = "returned"

\* the line of a call by thread t carries the request id of t if t has a
\* context and the format string shows it, and the request id of no other
\* thread
OwnContextOnly ==
    \A t \in Threads :
        Emitted(t) =>
            /\ Len(stream') = Len(stream) + 1
            /\ NewLine.thread = t
            /\ \A u \in Threads \ {t} :
                   ToString(u) \notin Elements(NewLine.line)
            /\ (store[t] # "" /\ "%(request_id)s" \in Elements(SelectedFor(t)))
                   => store[t] \in Elements(NewLine.line)
            /\ store[t] = ""
                   => \A u \in Threads :
                          ToString(u) \notin Elements(NewLine.line)

\* C22: when a log call passes no explicit context, the context used for
\* the line is the ambient context of the calling thread only: under any
\* interleaving of concurrent units of work, a line logged by one unit never
\* carries the request id of another unit.
C22_ContextPerThread == [][OwnContextOnly]_vars

\* C22 witness: thread 2 got its request context and began a log call while
\* thread 1 was inside its own, and the line thread 1 then wrote carries the
\* request id of thread 1.
C22_Witness ==
    /\ Len(stream) >= 1
    /\ stream[Len(stream)].thread = 1
    /\ stream[Len(stream)].line = <<"HAS CONTEXT [", "1", "]: ", "bar">>
    /\ store[2] = "2"
    /\ inflight[2] # NoRecord

====
